---- MODULE Spec2Model ----
(***************************************************************************)
(* Model of the Best Buy price-drop monitor (src/main.py).                 *)
(*                                                                         *)
(* Three specifications share the variables of this module:                *)
(*   SpecDeliver  one call of send_discord_webhook_message, one transport  *)
(*                attempt per step;                                        *)
(*   SpecDecide   _check_notification_conditions applied to bounded        *)
(*                inputs;                                                  *)
(*   Spec         the process: __main__, check_prices and everything it    *)
(*                calls, over a bounded upstream, store and clock.         *)
(***************************************************************************)
EXTENDS Integers, Sequences, FiniteSets, TLC

(***************************************************************************)
(* Bounds of the model.                                                    *)
(***************************************************************************)
MaxRetriesBound == 4      \* webhook_max_retries ranges over 0..MaxRetriesBound
MaxDelayBase == 2         \* webhook_retry_delay_base_seconds over 1..MaxDelayBase

(***************************************************************************)
(* Delivery engine: the transport and _attempt_discord_request.            *)
(***************************************************************************)

\* A Retry-After header value as the transport supplies it.  A numeric text
\* is kept in tenths of a second ("1.5" is 15) so that int(float(.)) has
\* something to truncate.
NoHint == [kind |-> "absent", tenths |-> 0]
NumHint(t) == [kind |-> "num", tenths |-> t]
HintTenths == {20, 15, -50}
RetryAfterHints ==
    {NoHint} \cup {NumHint(t) : t \in HintTenths}
             \cup {[kind |-> k, tenths |-> 0] : k \in {"empty", "garbage", "nan", "inf"}}

\* HTTP status codes the webhook can answer with.
StatusCodes == {200, 204, 201, 429, 404}

\* What requests.post does on one attempt: it answers with a status (and, for
\* a 429, possibly a Retry-After header), times out, fails on the network, or
\* raises something that is no requests exception.
TransportOutcomes ==
    {[kind |-> "response", status |-> s, retry_after |-> NoHint] : s \in StatusCodes \ {429}}
    \cup {[kind |-> "response", status |-> 429, retry_after |-> h] : h \in RetryAfterHints}
    \cup {[kind |-> k, status |-> 0, retry_after |-> NoHint] :
             k \in {"timeout", "network", "unexpected"}}

\* response.raise_for_status(): an HTTPError for every 4xx and 5xx status.
raise_for_status(status) == status >= 400 /\ status < 600

\* _attempt_discord_request: the response, or the custom exception raised.
attempt_discord_request(o) ==
    IF o.kind = "timeout" THEN [exc |-> "DiscordWebhookTimeoutError", response |-> o]
    ELSE IF o.kind = "network" THEN [exc |-> "DiscordWebhookRequestError", response |-> o]
    ELSE IF o.kind = "unexpected" THEN [exc |-> "Exception", response |-> o]
    ELSE IF raise_for_status(o.status)
         THEN IF o.status = 429
              THEN [exc |-> "DiscordWebhookRateLimitError", response |-> o]
              ELSE [exc |-> "DiscordWebhookHTTPError", response |-> o]
    ELSE [exc |-> "none", response |-> o]

\* bool(e.response) at line 301.  e.response is the requests.Response of the
\* failed call, and the truth value of a requests.Response is its .ok, which is
\* false for every status raise_for_status() raises on.
ResponseTruthyAlways(response) == TRUE
ResponseTruthy(response) == ~raise_for_status(response.status)

\* Lines 300-302: the Retry-After header the rate-limit handler gets to see.
retry_after_header(response) ==
    IF ResponseTruthy(response) /\ response.retry_after.kind # "absent"
    THEN response.retry_after
    ELSE NoHint

\* int(float(text)): float() raises ValueError on text that is no number,
\* int() raises ValueError on NaN and OverflowError on an infinity, and
\* truncates a finite value toward zero.
TruncTowardZero(tenths) ==
    IF tenths >= 0 THEN tenths \div 10 ELSE -((-tenths) \div 10)
int_float(h) ==
    IF h.kind = "num" THEN [exc |-> "none", value |-> TruncTowardZero(h.tenths)]
    ELSE IF h.kind = "inf" THEN [exc |-> "OverflowError", value |-> 0]
    ELSE [exc |-> "ValueError", value |-> 0]

\* retry_delay_base * (2 ** attempt), lines 304 and 323.
ExponentialWaitLinear(retry_delay_base, attempt) == retry_delay_base * (attempt + 1)
ExponentialWait(retry_delay_base, attempt) == retry_delay_base * (2 ^ attempt)

\* Lines 304-312: the wait of the rate-limit handler, or the exception that
\* leaves the handler (only ValueError is caught around the conversion).
\* "if retry_after_header:" is false for None and for the empty text.
RateLimitWait(retry_delay_base, attempt, response) ==
    LET h == retry_after_header(response)
        backoff == ExponentialWait(retry_delay_base, attempt)
        parsed == int_float(h)
    IN IF h.kind \in {"absent", "empty"} THEN [exc |-> "none", wait |-> backoff]
       ELSE IF parsed.exc = "none" THEN [exc |-> "none", wait |-> parsed.value + 1]
       ELSE IF parsed.exc = "ValueError" THEN [exc |-> "none", wait |-> backoff]
       ELSE [exc |-> parsed.exc, wait |-> 0]

\* time.sleep(secs) raises ValueError for a negative length.
SleepRaises(secs) == secs < 0



\* "for attempt in range(max_retries)" (line 289): another iteration follows.
LoopContinuesOneMore(attempt, max_retries) == attempt <= max_retries
LoopContinues(attempt, max_retries) == attempt < max_retries

\* "response.status_code in (200, 204)" (line 292).
IsSuccessStatusAny2xx(status) == status >= 200 /\ status < 300
IsSuccessStatus(status) == status \in {200, 204}

\* "attempt + 1 < max_retries" (lines 313 and 322).
AttemptsRemainInclusive(attempt, max_retries) == attempt + 1 <= max_retries
AttemptsRemain(attempt, max_retries) == attempt + 1 < max_retries

\* "isinstance(e, (DiscordWebhookTimeoutError, DiscordWebhookRequestError))"
\* (line 322): the errors of the second handler that are retried.
IsTransientWithHTTP(exc) ==
    exc \in {"DiscordWebhookTimeoutError", "DiscordWebhookRequestError",
             "DiscordWebhookHTTPError"}
IsTransient(exc) == exc \in {"DiscordWebhookTimeoutError", "DiscordWebhookRequestError"}

\* What one iteration does next: "retry", "return" (value "true"/"false") or
\* "raise" (value the exception leaving the function); sleep is <<secs>> when
\* the iteration slept and <<>> when it did not.
Step(next, value, sleep) == [next |-> next, value |-> value, sleep |-> sleep]

\* One iteration of the loop of send_discord_webhook_message (lines 290-331)
\* on transport outcome o.  An exception raised inside an except clause is not
\* caught by the sibling "except Exception" clause: it leaves the function.
AttemptStep(cfg, n, o) ==
    LET r == attempt_discord_request(o)
        more == AttemptsRemain(n, cfg.max_retries)
    IN IF r.exc = "none" THEN
            IF IsSuccessStatus(o.status)
            THEN Step("return", "true", <<>>)
            ELSE Step("return", "false", <<>>)
       ELSE IF r.exc = "DiscordWebhookRateLimitError" THEN
            LET w == RateLimitWait(cfg.retry_delay_base, n, r.response)
            IN IF w.exc # "none" THEN Step("raise", w.exc, <<>>)
               ELSE IF more THEN
                    IF SleepRaises(w.wait)
                    THEN Step("raise", "ValueError", <<>>)
                    ELSE Step("retry", "none", <<w.wait>>)
               ELSE Step("return", "false", <<>>)
       ELSE IF r.exc \in {"DiscordWebhookTimeoutError", "DiscordWebhookRequestError",
                          "DiscordWebhookHTTPError"} THEN
            LET w == ExponentialWait(cfg.retry_delay_base, n)
            IN IF IsTransient(r.exc) /\ more THEN
                    IF SleepRaises(w)
                    THEN Step("raise", "ValueError", <<>>)
                    ELSE Step("retry", "none", <<w>>)
               ELSE Step("return", "false", <<>>)
       ELSE \* any other Exception (lines 329-331)
            Step("return", "false", <<>>)

(***************************************************************************)
(* decimal.Decimal: sign, coefficient and exponent.  The coefficient is    *)
(* kept as its decimal digits, most significant first, since it is not     *)
(* bounded; the value is (-1)^neg * digs * 10^(-exp).  Decimal(text) and   *)
(* comparisons are exact; +, * and / round their result to the context's   *)
(* precision, half to even (the default context, which main.py never       *)
(* changes).                                                               *)
(***************************************************************************)
DecimalPrec == 28

Zeros(k) == [x \in 1..k |-> 0]
MaxOf(x, y) == IF x >= y THEN x ELSE y
Hi(d) == SubSeq(d, 1, Len(d) \div 2)               \* the leading half of d
Lo(d) == SubSeq(d, Len(d) \div 2 + 1, Len(d))      \* the trailing half of d
\* d without its leading zeros (one digit at least is left).
Strip0(d) ==
    IF \A k \in DOMAIN d : d[k] = 0 THEN <<0>>
    ELSE SubSeq(d, CHOOSE k \in DOMAIN d :
                      d[k] # 0 /\ \A m \in 1..(k - 1) : d[m] = 0, Len(d))
PadLeft(d, n) == IF Len(d) >= n THEN d ELSE Zeros(n - Len(d)) \o d

\* Magnitudes are sequences of digits, most significant first.

\* -1, 0 or 1 as a is below, equal to or above b (a and b of one length).
RECURSIVE LexCmp(_, _)
LexCmp(a, b) ==
    IF a = <<>> THEN 0
    ELSE IF Len(a) = 1 THEN (IF a[1] < b[1] THEN -1 ELSE IF a[1] > b[1] THEN 1 ELSE 0)
    ELSE LET h == LexCmp(Hi(a), Hi(b)) IN IF h # 0 THEN h ELSE LexCmp(Lo(a), Lo(b))
MagCmp(a, b) ==
    LET x == Strip0(a)
        y == Strip0(b)
    IN IF Len(x) < Len(y) THEN -1 ELSE IF Len(x) > Len(y) THEN 1 ELSE LexCmp(x, y)

\* a + b for a and b of one length n, as n + 1 digits.  The carry into
\* place k is 1 iff some place j to its right overflows (a[j] + b[j] >= 10)
\* and every place between them passes a carry on (a[m] + b[m] = 9).
CarryInto(a, b, k) ==
    IF \E j \in (k + 1)..Len(a) :
          a[j] + b[j] >= 10 /\ \A m \in (k + 1)..(j - 1) : a[m] + b[m] = 9
    THEN 1 ELSE 0
AddDigits(a, b) ==
    [k \in 1..(Len(a) + 1) |->
        IF k = 1 THEN CarryInto(a, b, 0)
        ELSE (a[k - 1] + b[k - 1] + CarryInto(a, b, k - 1)) % 10]
MagAdd(a, b) ==
    LET n == MaxOf(Len(a), Len(b))
    IN Strip0(AddDigits(PadLeft(a, n), PadLeft(b, n)))

\* a - b for a >= b of one length.  Place k lends 1 iff some place j to its
\* right is short (a[j] < b[j]) and every place between them is level.
BorrowFrom(a, b, k) ==
    IF \E j \in (k + 1)..Len(a) :
          a[j] < b[j] /\ \A m \in (k + 1)..(j - 1) : a[m] = b[m]
    THEN 1 ELSE 0
SubDigits(a, b) ==
    [k \in 1..Len(a) |-> (a[k] - b[k] - BorrowFrom(a, b, k) + 10) % 10]
MagSub(a, b) ==
    LET n == MaxOf(Len(a), Len(b))
    IN Strip0(SubDigits(PadLeft(a, n), PadLeft(b, n)))

\* a times one digit m, by repeated addition, and a times b, by the halves
\* of b.
RECURSIVE MulDigit(_, _)
MulDigit(a, m) == IF m = 0 THEN <<0>> ELSE MagAdd(MulDigit(a, m - 1), a)
RECURSIVE MagMul(_, _)
MagMul(a, b) ==
    IF b = <<>> THEN <<0>>
    ELSE IF Len(b) = 1 THEN MulDigit(a, b[1])
    ELSE MagAdd(MagMul(a, Hi(b)) \o Zeros(Len(Lo(b))), MagMul(a, Lo(b)))

\* a divided by the small whole number n >= 1, from the left, rem being the
\* remainder carried in: the quotient's digits and the remainder.
RECURSIVE DivDigits(_, _, _)
DivDigits(a, n, rem) ==
    IF a = <<>> THEN [q |-> <<>>, r |-> rem]
    ELSE IF Len(a) = 1
    THEN [q |-> <<(rem * 10 + a[1]) \div n>>, r |-> (rem * 10 + a[1]) % n]
    ELSE LET hi == DivDigits(Hi(a), n, rem)
             lo == DivDigits(Lo(a), n, hi.r)
         IN [q |-> hi.q \o lo.q, r |-> lo.r]

Decimal(neg, digs, exp) == [neg |-> neg, digs |-> digs, exp |-> exp]
IsZero(a) == Strip0(a.digs) = <<0>>

\* The context's rounding of a result with coefficient digs, exponent exp
\* and, below the last digit, a discarded part that is non-zero iff sticky.
RoundToContext(neg, digs, exp, sticky) ==
    LET d == Strip0(digs)
    IN IF Len(d) <= DecimalPrec THEN Decimal(neg, d, exp)
       ELSE LET kept == SubSeq(d, 1, DecimalPrec)
                rest == SubSeq(d, DecimalPrec + 1, Len(d))
                more == sticky \/ \E k \in 2..Len(rest) : rest[k] # 0
                up == \/ rest[1] > 5
                      \/ rest[1] = 5 /\ (more \/ kept[DecimalPrec] % 2 = 1)
            IN Decimal(neg, IF up THEN MagAdd(kept, <<1>>) ELSE kept, exp - Len(rest))

\* The digits of a and b over their common exponent.
Aligned(a, b) ==
    LET e == MaxOf(a.exp, b.exp)
    IN [x |-> a.digs \o Zeros(e - a.exp), y |-> b.digs \o Zeros(e - b.exp), exp |-> e]

\* -1, 0, 1 as a < b, a = b, a > b (the comparison operators of Decimal).
DecSign(a) == IF IsZero(a) THEN 0 ELSE IF a.neg THEN -1 ELSE 1
DecCmp(a, b) ==
    IF DecSign(a) # DecSign(b) THEN (IF DecSign(a) < DecSign(b) THEN -1 ELSE 1)
    ELSE LET al == Aligned(a, b) IN DecSign(a) * MagCmp(al.x, al.y)
DecLT(a, b) == DecCmp(a, b) < 0
DecLE(a, b) == DecCmp(a, b) <= 0
DecEQ(a, b) == DecCmp(a, b) = 0

\* a + b, a * b, and a / Decimal(n) for a whole number n >= 1.
DecAdd(a, b) ==
    LET al == Aligned(a, b)
    IN IF a.neg = b.neg THEN RoundToContext(a.neg, MagAdd(al.x, al.y), al.exp, FALSE)
       ELSE IF MagCmp(al.x, al.y) >= 0
       THEN RoundToContext(a.neg, MagSub(al.x, al.y), al.exp, FALSE)
       ELSE RoundToContext(b.neg, MagSub(al.y, al.x), al.exp, FALSE)
DecMul(a, b) == RoundToContext(a.neg # b.neg, MagMul(a.digs, b.digs), a.exp + b.exp, FALSE)
DecDiv(a, n) ==
    LET extra == DecimalPrec + 2
        d == DivDigits(a.digs \o Zeros(extra), n, 0)
    IN RoundToContext(a.neg, d.q, a.exp + extra, d.r # 0)

\* Decimal of a whole number given with its number of fraction digits, as in
\* Decimal('0.5') = Dec(5, 1).
RECURSIVE IntDigits(_)
IntDigits(n) == IF n < 10 THEN <<n>> ELSE IntDigits(n \div 10) \o <<n % 10>>
Dec(n, e) == Decimal(n < 0, IntDigits(IF n < 0 THEN -n ELSE n), e)
DecZero == Dec(0, 2)                    \* Decimal('0.00')

(***************************************************************************)
(* Numeric normalizer: safe_decimal.  A raw value is None or a text, and a *)
(* text is a sequence of one-character strings.                            *)
(***************************************************************************)
None == <<"None">>
Digits == {"0", "1", "2", "3", "4", "5", "6", "7", "8", "9"}
DigitValue(c) ==
    CASE c = "0" -> 0 [] c = "1" -> 1 [] c = "2" -> 2 [] c = "3" -> 3 [] c = "4" -> 4
      [] c = "5" -> 5 [] c = "6" -> 6 [] c = "7" -> 7 [] c = "8" -> 8 [] c = "9" -> 9
\* The character U+00B2 (superscript two), written "^2": str.isdigit() is true
\* of it, and Decimal() rejects a text that holds it.
SuperscriptTwo == "^2"
isdigit(c) == c \in Digits \/ c = SuperscriptTwo

\* str.strip(): leading and trailing whitespace removed.
RECURSIVE lstrip(_)
lstrip(s) == IF s # <<>> /\ Head(s) = " " THEN lstrip(Tail(s)) ELSE s
RECURSIVE rstrip(_)
rstrip(s) == IF s # <<>> /\ s[Len(s)] = " " THEN rstrip(SubSeq(s, 1, Len(s) - 1)) ELSE s
strip(s) == rstrip(lstrip(s))

\* Lines 223-232 with '-' kept wherever it stands.
RECURSIVE cleaned_chars_any_minus(_, _, _)
cleaned_chars_any_minus(s, k, has_decimal_point) ==
    IF k > Len(s) THEN <<>>
    ELSE IF isdigit(s[k])
    THEN <<s[k]>> \o cleaned_chars_any_minus(s, k + 1, has_decimal_point)
    ELSE IF s[k] = "." /\ ~has_decimal_point
    THEN <<s[k]>> \o cleaned_chars_any_minus(s, k + 1, TRUE)
    ELSE IF s[k] = "-" THEN <<s[k]>> \o cleaned_chars_any_minus(s, k + 1, has_decimal_point)
    ELSE cleaned_chars_any_minus(s, k + 1, has_decimal_point)

\* Lines 223-232: the characters kept, scanning s from position k on.
RECURSIVE cleaned_chars(_, _, _)
cleaned_chars(s, k, has_decimal_point) ==
    IF k > Len(s) THEN <<>>
    ELSE IF isdigit(s[k]) THEN <<s[k]>> \o cleaned_chars(s, k + 1, has_decimal_point)
    ELSE IF s[k] = "." /\ ~has_decimal_point THEN <<s[k]>> \o cleaned_chars(s, k + 1, TRUE)
    ELSE IF s[k] = "-" /\ k = 1 THEN <<s[k]>> \o cleaned_chars(s, k + 1, has_decimal_point)
    ELSE cleaned_chars(s, k + 1, has_decimal_point)

\* Decimal(text) for a text of the characters safe_decimal keeps: an optional
\* '-' in front, then decimal digits with at most one '.' among them, one
\* digit at least; InvalidOperation for any other text.
DecimalOf(c) ==
    LET neg == c # <<>> /\ c[1] = "-"
        body == IF neg THEN Tail(c) ELSE c
        kept == SelectSeq(body, LAMBDA ch : ch \in Digits)
        dot == IF \E k \in DOMAIN body : body[k] = "."
               THEN CHOOSE k \in DOMAIN body : body[k] = "."
               ELSE Len(body) + 1
        frac == IF dot > Len(body) THEN 0 ELSE Len(body) - dot
        wellformed ==
            /\ kept # <<>>
            /\ \A k \in DOMAIN body : body[k] \in Digits \/ body[k] = "."
            /\ \A k, m \in DOMAIN body : body[k] = "." /\ body[m] = "." => k = m
    IN IF ~wellformed THEN [exc |-> "InvalidOperation", value |-> DecZero]
       ELSE [exc |-> "none",
             value |-> Decimal(neg, Strip0([k \in DOMAIN kept |-> DigitValue(kept[k])]),
                               frac)]

\* Line 241: the exceptions of Decimal() the handler catches.
CaughtNone(exc) == FALSE
CaughtByHandler(exc) == exc = "InvalidOperation"

\* The exception a call of safe_decimal lets out ("none" when it returns).
safe_decimal_raises(value) ==
    IF value = None THEN "none"
    ELSE LET s_value == strip(value)
             cleaned_value_str == cleaned_chars(s_value, 1, FALSE)
             parsed == DecimalOf(cleaned_value_str)
         IN IF s_value = <<>> THEN "none"
            ELSE IF cleaned_value_str = <<>> \/ cleaned_value_str = <<"-">> THEN "none"
            ELSE IF parsed.exc # "none" /\ ~CaughtByHandler(parsed.exc) THEN parsed.exc
            ELSE "none"

\* safe_decimal (lines 212-245): the value returned.
safe_decimal(value) ==
    IF value = None THEN DecZero
    ELSE LET s_value == strip(value)
             cleaned_value_str == cleaned_chars(s_value, 1, FALSE)
             parsed == DecimalOf(cleaned_value_str)
         IN IF s_value = <<>> THEN DecZero
            ELSE IF cleaned_value_str = <<>> \/ cleaned_value_str = <<"-">> THEN DecZero
            ELSE IF parsed.exc # "none" /\ CaughtByHandler(parsed.exc) THEN DecZero
            ELSE parsed.value

(***************************************************************************)
(* Price statistics: _calculate_price_stats.                               *)
(***************************************************************************)
\* min() and max() of a non-empty list: the first of equal extremes.
RECURSIVE DecMin(_)
DecMin(s) ==
    IF Len(s) = 1 THEN s[1]
    ELSE LET m == DecMin(Tail(s)) IN IF DecLE(s[1], m) THEN s[1] ELSE m
RECURSIVE DecMax(_)
DecMax(s) ==
    IF Len(s) = 1 THEN s[1]
    ELSE LET m == DecMax(Tail(s)) IN IF DecLE(m, s[1]) THEN s[1] ELSE m

\* sum(historical_prices): 0 + p1 + p2 + ..., every addition rounded to the
\* context.
RECURSIVE DecSum(_)
DecSum(s) ==
    IF s = <<>> THEN Dec(0, 0) ELSE DecAdd(DecSum(SubSeq(s, 1, Len(s) - 1)), s[Len(s)])

\* Lines 477-502.  history_1p is the '1P' list of the history JSON, each
\* entry's 'y' a raw value; entries whose 'y' is None are left out.  The
\* result is NoStats (None) when no price is left.
NoStats == [present |-> FALSE]
calculate_price_stats(history_1p, current_price_str) ==
    LET historical_prices_str == SelectSeq(history_1p, LAMBDA y : y # None)
        historical_prices ==
            [k \in DOMAIN historical_prices_str |-> safe_decimal(historical_prices_str[k])]
    IN IF historical_prices_str = <<>> THEN NoStats
       ELSE [present |-> TRUE,
             current_price |-> safe_decimal(current_price_str),
             lowest_historical |-> DecMin(historical_prices),
             highest_historical |-> DecMax(historical_prices),
             average_historical |-> DecDiv(DecSum(historical_prices),
                                           Len(historical_prices)),
             all_historical_prices |-> historical_prices]

(***************************************************************************)
(* Eligibility rule: _check_notification_conditions.                       *)
(***************************************************************************)
\* Lines 511-515.
condition_base_50_percent_inclusive(current_price, highest_historical) ==
    IF DecLT(Dec(0, 0), highest_historical)
    THEN DecLE(current_price, DecMul(Dec(5, 1), highest_historical))
    ELSE DecLT(current_price, Dec(0, 0))
condition_base_50_percent(current_price, highest_historical) ==
    IF DecLT(Dec(0, 0), highest_historical)
    THEN DecLT(current_price, DecMul(Dec(5, 1), highest_historical))
    ELSE DecLT(current_price, Dec(0, 0))

\* Line 522.
sub_condition_2a(current_price, lowest_historical, in_stock) ==
    DecEQ(current_price, lowest_historical) /\ in_stock

\* Lines 523-527 without the factor 0.9.
sub_condition_2b_unscaled(current_price, lowest_historical) ==
    IF DecLT(Dec(0, 0), lowest_historical)
    THEN DecLE(current_price, lowest_historical)
    ELSE IF DecLT(current_price, Dec(0, 0))
         THEN DecLT(current_price, lowest_historical)
         ELSE FALSE
\* Lines 523-527.
sub_condition_2b(current_price, lowest_historical) ==
    IF DecLT(Dec(0, 0), lowest_historical)
    THEN DecLE(current_price, DecMul(lowest_historical, Dec(9, 1)))
    ELSE IF DecLT(current_price, Dec(0, 0))
         THEN DecLT(current_price, lowest_historical)
         ELSE FALSE

\* Lines 504-542 with the two reasons exchanged.
check_notification_conditions_reasons_exchanged(in_stock, stats) ==
    IF ~condition_base_50_percent(stats.current_price, stats.highest_historical)
    THEN [notify |-> FALSE, reason |-> ""]
    ELSE IF sub_condition_2a(stats.current_price, stats.lowest_historical, in_stock)
    THEN [notify |-> TRUE, reason |-> "below ATL"]
    ELSE IF sub_condition_2b(stats.current_price, stats.lowest_historical)
    THEN [notify |-> TRUE, reason |-> "ATL restock"]
    ELSE [notify |-> FALSE, reason |-> ""]

\* Lines 504-542: (notify, reason).  The reason is kept as the name of the
\* branch that produced it; "" is the empty reason.
check_notification_conditions(in_stock, stats) ==
    IF ~condition_base_50_percent(stats.current_price, stats.highest_historical)
    THEN [notify |-> FALSE, reason |-> ""]
    ELSE IF sub_condition_2a(stats.current_price, stats.lowest_historical, in_stock)
    THEN [notify |-> TRUE, reason |-> "ATL restock"]
    ELSE IF sub_condition_2b(stats.current_price, stats.lowest_historical)
    THEN [notify |-> TRUE, reason |-> "below ATL"]
    ELSE [notify |-> FALSE, reason |-> ""]

(***************************************************************************)
(* Cooldown store: a dict SKU -> timestamp text, kept as the sequence of   *)
(* its entries in insertion order (the order dicts and json keep).         *)
(***************************************************************************)
\* A timestamp text: datetime.isoformat() of clock value t, or a text that
\* datetime.fromisoformat() rejects with ValueError.
isoformat(t) == [kind |-> "iso", t |-> t]
BadTimestamp == [kind |-> "bad", t |-> 0]
fromisoformat_accepts_all(v_str) == [exc |-> "none", t |-> v_str.t]
fromisoformat(v_str) ==
    IF v_str.kind = "iso" THEN [exc |-> "none", t |-> v_str.t]
    ELSE [exc |-> "ValueError", t |-> 0]

Entry(sku, v_str) == [sku |-> sku, ts |-> v_str]
Keys(store) == {store[k].sku : k \in DOMAIN store}
Lookup(store, sku) == store[CHOOSE k \in DOMAIN store : store[k].sku = sku].ts
\* sku_fetch_timestamps[sku] = v_str: overwritten in place, or appended.
Assign(store, sku, v_str) ==
    IF sku \in Keys(store)
    THEN [k \in DOMAIN store |-> IF store[k].sku = sku THEN Entry(sku, v_str) ELSE store[k]]
    ELSE Append(store, Entry(sku, v_str))
\* del sku_fetch_timestamps[sku] for every sku of a set.
DeleteAll(store, skus) == SelectSeq(store, LAMBDA e : e.sku \notin skus)

\* sorted(valid_items, key=fromisoformat): oldest first, and stable (entries
\* with equal timestamps keep their order): the head of the list is put
\* before the sorted rest's entries that are not older than it.
RECURSIVE InsertNewestFirst(_, _)
InsertNewestFirst(e, sorted) ==
    IF sorted = <<>> THEN <<e>>
    ELSE IF e.ts.t >= Head(sorted).ts.t THEN <<e>> \o sorted
    ELSE <<Head(sorted)>> \o InsertNewestFirst(e, Tail(sorted))
RECURSIVE SortedNewestFirst(_)
SortedNewestFirst(items) ==
    IF items = <<>> THEN <<>>
    ELSE InsertNewestFirst(Head(items), SortedNewestFirst(Tail(items)))
RECURSIVE InsertSorted(_, _)
InsertSorted(e, sorted) ==
    IF sorted = <<>> THEN <<e>>
    ELSE IF e.ts.t <= Head(sorted).ts.t THEN <<e>> \o sorted
    ELSE <<Head(sorted)>> \o InsertSorted(e, Tail(sorted))
RECURSIVE SortedByTimestamp(_)
SortedByTimestamp(items) ==
    IF items = <<>> THEN <<>>
    ELSE InsertSorted(Head(items), SortedByTimestamp(Tail(items)))

\* manage_sku_fetch_timestamps (lines 168-209).
manage_without_pruning(cfg, sku_fetch_timestamps) == sku_fetch_timestamps
manage_sku_fetch_timestamps(cfg, sku_fetch_timestamps) ==
    IF ~cfg.enabled THEN sku_fetch_timestamps
    ELSE IF Len(sku_fetch_timestamps) > cfg.max_sku_entries
    THEN LET valid_items == SelectSeq(sku_fetch_timestamps,
                                      LAMBDA e : fromisoformat(e.ts).exc = "none")
             sorted_skus == SortedByTimestamp(valid_items)
             num_to_prune == Len(sorted_skus) - cfg.max_sku_entries
         IN IF num_to_prune > 0
            THEN DeleteAll(sku_fetch_timestamps,
                           {sorted_skus[k].sku : k \in 1..num_to_prune})
            ELSE sku_fetch_timestamps
    ELSE sku_fetch_timestamps

\* Lines 445-454: the history call for sku is skipped.
IsOnCooldownIgnored(cfg, store, sku, now_) == FALSE
IsOnCooldownInclusive(cfg, store, sku, now_) ==
    /\ cfg.enabled
    /\ sku \in Keys(store)
    /\ LET last_fetch_time == fromisoformat(Lookup(store, sku))
       IN /\ last_fetch_time.exc = "none"
          /\ now_ - last_fetch_time.t <= cfg.sku_fetch_cooldown_hours
IsOnCooldown(cfg, store, sku, now_) ==
    /\ cfg.enabled
    /\ sku \in Keys(store)
    /\ LET last_fetch_time == fromisoformat(Lookup(store, sku))
       IN /\ last_fetch_time.exc = "none"
          /\ now_ - last_fetch_time.t < cfg.sku_fetch_cooldown_hours

(***************************************************************************)
(* Upstream answers and items.                                             *)
(***************************************************************************)
\* The answer to a per-SKU history read: a transport error (or undecodable
\* body), the empty JSON object, a non-empty JSON value that is no object,
\* or an object whose '1P' list carries the raw prices.
HistError == [kind |-> "error", prices |-> <<>>]
HistEmpty == [kind |-> "empty", prices |-> <<>>]
HistNotDict == [kind |-> "not_dict", prices |-> <<>>]
HistSeries(prices) == [kind |-> "series", prices |-> prices]

\* _get_api_data (lines 395-407): None on a transport or decoding error.
NoData == [kind |-> "None", prices |-> <<>>]
get_api_data(answer) == IF answer.kind = "error" THEN NoData ELSE answer

\* An element of the 'data' list: a dict, or a JSON value that is no dict.
Item(sku, new_price, in_stock) ==
    [kind |-> "dict", Sku |-> sku, NewPrice |-> new_price, InStock |-> in_stock]
BadItem == [kind |-> "not_dict", Sku |-> "", NewPrice |-> None, InStock |-> FALSE]
NoSkuItem == Item("", <<"3", "0">>, TRUE)

\* _prepare_notification_details with the flag set by "<" instead of "<=".
prepare_notification_details_strict(item_data, stats, notification_reason) ==
    [Sku |-> item_data.Sku,
     NewPrice |-> stats.current_price,
     is_all_time_low |-> DecLT(stats.current_price, stats.lowest_historical),
     notification_trigger_reason |-> notification_reason]

\* _prepare_notification_details (lines 544-578): the fields of the payload
\* the later stages read.
prepare_notification_details(item_data, stats, notification_reason) ==
    [Sku |-> item_data.Sku,
     NewPrice |-> stats.current_price,
     is_all_time_low |-> DecLE(stats.current_price, stats.lowest_historical),
     notification_trigger_reason |-> notification_reason]

NoPayload == [Sku |-> "", NewPrice |-> DecZero, is_all_time_low |-> FALSE,
              notification_trigger_reason |-> ""]

\* What processing one item did: the exception that left it ("none" if it
\* returned), what became of its history read, the payload it returned
\* (NoPayload for None) and the store after it.
Processed(exc, outcome, payload, store) ==
    [exc |-> exc, outcome |-> outcome, payload |-> payload, store |-> store]

\* process_item_history (lines 580-602) with _fetch_sku_history_if_needed
\* (lines 440-471) inlined; the history URL is configured.
process_item_history(cfg, item_data, answer, store, now_) ==
    IF item_data.kind # "dict"
    THEN Processed("AttributeError", "no_read", NoPayload, store)
    ELSE IF item_data.Sku = ""
    THEN Processed("none", "no_sku", NoPayload, store)
    ELSE IF IsOnCooldown(cfg, store, item_data.Sku, now_)
    THEN Processed("none", "cooldown", NoPayload, store)
    ELSE LET history_data_json == get_api_data(answer)
             truthy == history_data_json.kind \notin {"None", "empty"}
             stamped == IF truthy /\ cfg.enabled
                        THEN Assign(store, item_data.Sku, isoformat(now_))
                        ELSE store
         IN IF history_data_json = NoData
            THEN Processed("none", "error", NoPayload, stamped)
            ELSE IF history_data_json.kind = "not_dict"
            THEN Processed("AttributeError", "fetched", NoPayload, stamped)
            ELSE LET stats == calculate_price_stats(history_data_json.prices,
                                                    item_data.NewPrice)
                 IN IF ~stats.present
                    THEN Processed("none",
                                   IF truthy THEN "fetched" ELSE "fetched_empty",
                                   NoPayload, stamped)
                    ELSE LET d == check_notification_conditions(item_data.InStock, stats)
                         IN Processed("none", "fetched",
                                IF d.notify
                                THEN prepare_notification_details(item_data, stats, d.reason)
                                ELSE NoPayload,
                                stamped)


\* send_discord_webhook_message (lines 273-334) run to its end against a
\* transport that answers every attempt with outcome o: the final Step.
RECURSIVE deliver_from(_, _, _)
deliver_from(d, n, o) ==
    IF ~LoopContinues(n, d.max_retries) THEN Step("return", "false", <<>>)
    ELSE LET st == AttemptStep(d, n, o)
         IN IF st.next = "retry" THEN deliver_from(d, n + 1, o) ELSE st
send_discord_webhook_message(d, o) ==
    IF ~d.webhook_url THEN Step("return", "false", <<>>) ELSE deliver_from(d, 0, o)

\* load_sku_fetch_timestamps (lines 135-153).  The file is absent, holds a
\* JSON object, holds text json.load rejects (JSONDecodeError, caught), cannot
\* be read although it holds a JSON object (open() or read() raises IOError,
\* caught), or holds a JSON value that is no object (.items() raises
\* AttributeError, which the except clause does not name).  A file that can
\* be read but not written ("unwritable") loads as the JSON object it holds.
load_sku_fetch_timestamps(cfg, f) ==
    IF ~cfg.enabled THEN [exc |-> "none", store |-> <<>>]
    ELSE IF f.kind \in {"json_object", "unwritable"} THEN [exc |-> "none", store |-> f.data]
    ELSE IF f.kind = "not_object" THEN [exc |-> "AttributeError", store |-> <<>>]
    ELSE [exc |-> "none", store |-> <<>>]

\* save_sku_fetch_timestamps (lines 155-166): the file after the call.  On a
\* file that cannot be written open() raises IOError, which line 165 catches:
\* the call returns and the file is as it was.
save_sku_fetch_timestamps(cfg, f, store) ==
    IF ~cfg.enabled \/ f.kind = "unwritable" THEN f
    ELSE [kind |-> "json_object", data |-> store]

\* get_total_count (lines 409-419) on the answer of the total-count read:
\* a transport error, a JSON value that is no object, an object without
\* 'total_count', or an object with the given count.
get_total_count(answer) ==
    IF answer.kind = "error" THEN [exc |-> "none", isNone |-> TRUE, count |-> 0]
    ELSE IF answer.kind = "not_dict" THEN [exc |-> "AttributeError", isNone |-> TRUE, count |-> 0]
    ELSE IF answer.kind = "no_count" THEN [exc |-> "none", isNone |-> TRUE, count |-> 0]
    ELSE [exc |-> "none", isNone |-> FALSE, count |-> answer.count]

\* get_all_items (lines 421-437): None (isNone) for a count that is not
\* positive and for a failed read, else the 'data' list.
get_all_items_unchecked(total_count, answer) ==
    [isNone |-> FALSE, items |-> answer.items]
get_all_items(total_count, answer) ==
    IF total_count <= 0 THEN [isNone |-> TRUE, items |-> <<>>]
    ELSE IF answer.kind = "error" THEN [isNone |-> TRUE, items |-> <<>>]
    ELSE [isNone |-> FALSE, items |-> answer.items]
(***************************************************************************)
(* Bounds and fixtures of the process model.                               *)
(***************************************************************************)
MaxItems == 2             \* the item batch holds at most MaxItems items
MaxEntriesBound == 2      \* max_sku_entries ranges over 1..MaxEntriesBound
MaxTime == 2              \* the clock runs over 0..MaxTime
CooldownHours == 1        \* sku_fetch_cooldown_hours, in clock units
MaxPrice == 20            \* SpecDecide draws prices from -MaxPrice..MaxPrice

DEFAULT_WEBHOOK_MAX_RETRIES == 3
DEFAULT_WEBHOOK_RETRY_DELAY_BASE == 5

SKUs == {"A", "B"}

\* Raw texts, one character per element.
Price30 == <<"3", "0">>
Price60 == <<"$", "6", "0">>
SeriesFixture == <<<<"$", "1", "0", "0">>, None, <<"4", "0", ".", "0", "0">>>>

\* Against SeriesFixture (highest 100, lowest 40.00) a price of 30 is below
\* half the highest and at least 10% below the lowest; a price of 60 fails
\* the base rule.  SKU A is offered at 30 and SKU B at 60.
ItemFixtures ==
    {Item("A", Price30, FALSE), Item("B", Price60, TRUE), BadItem, NoSkuItem}

HistAnswers == {HistError, HistEmpty, HistNotDict, HistSeries(SeriesFixture)}

TotalAnswer(kind, count) == [kind |-> kind, count |-> count]
FailingTotals ==
    {TotalAnswer("error", 0), TotalAnswer("not_dict", 0), TotalAnswer("no_count", 0),
     TotalAnswer("count", 0)}
BatchError == [kind |-> "error", items |-> <<>>]
BatchList(items) == [kind |-> "list", items |-> items]
ItemLists == UNION {[1..n -> ItemFixtures] : n \in 0..MaxItems}
SkusOf(items) == {items[k].Sku : k \in DOMAIN items} \cap SKUs

UpstreamsWith(l) ==
    {[total |-> TotalAnswer("count", 1), batch |-> BatchList(l), hist |-> h] :
        h \in {g \in [SKUs -> HistAnswers] :
                 /\ \A s \in SKUs \ SkusOf(l) : g[s] = HistError
                 /\ g["B"] \in {HistError, HistSeries(SeriesFixture)}}}

\* What the three upstream endpoints answer.  The answers are chosen once:
\* every cycle of a behaviour reads the same upstream.  Answers that no read
\* can reach are fixed (no batch after a failing total count, no history for
\* a SKU that is not in the batch); the empty and the malformed history are
\* answers for SKU A only.
Upstreams ==
    {[total |-> t, batch |-> BatchError, hist |-> [s \in SKUs |-> HistError]] :
        t \in FailingTotals}
    \cup {[total |-> TotalAnswer("count", 1), batch |-> BatchError,
           hist |-> [s \in SKUs |-> HistError]]}
    \cup UNION {UpstreamsWith(l) : l \in ItemLists}

\* The timestamps file when the process starts.
FileMissing == [kind |-> "missing", data |-> <<>>]
FileOf(store) == [kind |-> "json_object", data |-> store]
InitialFiles ==
    {FileMissing,
     [kind |-> "corrupt", data |-> <<>>],
     [kind |-> "unreadable", data |-> <<Entry("A", isoformat(0))>>],
     [kind |-> "not_object", data |-> <<>>],
     FileOf(<<Entry("A", isoformat(0))>>),
     FileOf(<<Entry("A", BadTimestamp), Entry("B", isoformat(0))>>)}

PersistenceConfigs ==
    [enabled : BOOLEAN,
     max_sku_entries : 1..MaxEntriesBound,
     sku_fetch_cooldown_hours : {CooldownHours}]

DiscordConfigs ==
    [webhook_url : BOOLEAN,
     max_retries : 0..MaxRetriesBound,
     retry_delay_base : 1..MaxDelayBase]
DefaultDiscordConfig ==
    [webhook_url |-> TRUE,
     max_retries |-> DEFAULT_WEBHOOK_MAX_RETRIES,
     retry_delay_base |-> DEFAULT_WEBHOOK_RETRY_DELAY_BASE]

(***************************************************************************)
(* State.                                                                  *)
(***************************************************************************)
VARIABLES
    \* one call of send_discord_webhook_message (SpecDeliver)
    d_cfg,      \* CONFIG['discord']: webhook_url set?, max_retries, retry_delay_base
    d_pc,       \* position in send_discord_webhook_message
    attempt,    \* the loop variable of line 289
    d_trace,    \* transport attempts and sleeps of the call, in order
    d_result,   \* "none" while running, then "true", "false" or the exception raised
    \* one call of _check_notification_conditions (SpecDecide)
    q_in,       \* current price, lowest, highest, stock flag
    q_out,      \* the (notify, reason) returned, and the payload formatted
    \* the process (Spec)
    cfg,        \* CONFIG['data_persistence']
    up,         \* the upstream answers
    file,       \* the timestamps file on disk
    now,        \* datetime.now()
    proc,       \* where __main__ is
    pc,         \* where check_prices is
    sku_fetch_timestamps,   \* the dict of the running cycle
    loaded,     \* the dict as load_sku_fetch_timestamps returned it this cycle
    all_items_data,
    i,          \* index (from 1) of the next item of the loop of line 631
    items_to_notify,
    j,          \* index (from 1) of the next payload of the loop of line 645
    fetch_log,  \* what became of each item processed this cycle
    deliveries, \* the send_discord_notification calls of this cycle
    cycle,      \* status of the running or last cycle, and whether it saved
    prev,       \* summary of the last cycle that returned before this one
    \* one call of a pure function (SpecPrune, SpecStats, SpecNormalize)
    f_in,       \* the arguments of the call
    f_out       \* whether the call was made, and what it returned

dvars == <<d_cfg, d_pc, attempt, d_trace, d_result>>
qvars == <<q_in, q_out>>
cvars == <<cfg, up, file, now, proc, pc, sku_fetch_timestamps, loaded, all_items_data,
           i, items_to_notify, j, fetch_log, deliveries, cycle, prev>>
fvars == <<f_in, f_out>>
vars == <<dvars, qvars, cvars, fvars>>

NoOutcome == [kind |-> "none", status |-> 0, retry_after |-> NoHint]
AttemptEvent(n, o) == [ev |-> "attempt", n |-> n, o |-> o, secs |-> 0]
SleepEvent(n, secs) == [ev |-> "sleep", n |-> n, o |-> NoOutcome, secs |-> secs]

NoCycle == [status |-> "none", saved |-> FALSE]
NoPrev == [done |-> FALSE, handled |-> {}, fetched |-> {}, notified |-> {}, failed |-> {}]

\* The parts of the state a specification does not use stay as they are here.
NotCalled == [called |-> FALSE, exc |-> "none", value |-> <<>>]
FunctionIdle ==
    /\ f_in = [fn |-> "none"]
    /\ f_out = NotCalled
DeliverIdle ==
    /\ d_cfg = DefaultDiscordConfig
    /\ d_pc = "idle"
    /\ attempt = 0
    /\ d_trace = <<>>
    /\ d_result = "none"
DecideIdle ==
    /\ q_in = [current |-> DecZero, lowest |-> DecZero, highest |-> DecZero,
               in_stock |-> FALSE]
    /\ q_out = [called |-> FALSE, notify |-> FALSE, reason |-> "", payload |-> NoPayload]
ProcessIdle ==
    /\ cfg = [enabled |-> FALSE, max_sku_entries |-> 1,
              sku_fetch_cooldown_hours |-> CooldownHours]
    /\ up = [total |-> TotalAnswer("error", 0), batch |-> BatchError,
             hist |-> [s \in SKUs |-> HistError]]
    /\ file = FileMissing
    /\ now = 0
    /\ proc = "off"
    /\ pc = "idle"
    /\ sku_fetch_timestamps = <<>>
    /\ loaded = <<>>
    /\ all_items_data = <<>>
    /\ i = 1
    /\ items_to_notify = <<>>
    /\ j = 1
    /\ fetch_log = <<>>
    /\ deliveries = <<>>
    /\ cycle = NoCycle
    /\ prev = NoPrev

(***************************************************************************)
(* SpecDeliver: one call of send_discord_webhook_message.                  *)
(***************************************************************************)
InitDeliver ==
    /\ d_cfg \in DiscordConfigs
    /\ d_pc = "call"
    /\ attempt = 0
    /\ d_trace = <<>>
    /\ d_result = "none"
    /\ DecideIdle
    /\ ProcessIdle
    /\ FunctionIdle

\* Lines 278-288: no webhook URL, no attempt.
DeliverCall ==
    /\ d_pc = "call"
    /\ IF d_cfg.webhook_url
       THEN d_pc' = "loop" /\ d_result' = "none"
       ELSE d_pc' = "returned" /\ d_result' = "false"
    /\ UNCHANGED <<d_cfg, attempt, d_trace, qvars, cvars, fvars>>

\* Lines 289-331: one iteration, the sleep of its handler included.
DeliverIterate ==
    /\ d_pc = "loop"
    /\ LoopContinues(attempt, d_cfg.max_retries)
    /\ \E o \in TransportOutcomes :
         LET st == AttemptStep(d_cfg, attempt, o)
             slept == IF st.sleep = <<>> THEN <<>>
                      ELSE <<SleepEvent(attempt, st.sleep[1])>>
         IN /\ d_trace' = d_trace \o <<AttemptEvent(attempt, o)>> \o slept
            /\ IF st.next = "retry"
               THEN d_pc' = "loop" /\ attempt' = attempt + 1 /\ d_result' = "none"
               ELSE /\ d_pc' = (IF st.next = "raise" THEN "raised" ELSE "returned")
                    /\ attempt' = attempt
                    /\ d_result' = st.value
    /\ UNCHANGED <<d_cfg, qvars, cvars, fvars>>

\* Lines 333-334: the loop ran out of iterations.
DeliverExhausted ==
    /\ d_pc = "loop"
    /\ ~LoopContinues(attempt, d_cfg.max_retries)
    /\ d_pc' = "returned"
    /\ d_result' = "false"
    /\ UNCHANGED <<d_cfg, attempt, d_trace, qvars, cvars, fvars>>

NextDeliver == DeliverCall \/ DeliverIterate \/ DeliverExhausted

SpecDeliver == InitDeliver /\ [][NextDeliver]_vars

(***************************************************************************)
(* SpecDecide: _check_notification_conditions on the statistics of one     *)
(* item.  lowest and highest are the min and max of one series, so         *)
(* lowest <= highest.                                                      *)
(***************************************************************************)
Prices == {Dec(n, 0) : n \in (-MaxPrice)..MaxPrice}

InitDecide ==
    /\ q_in \in {q \in [current : Prices, lowest : Prices, highest : Prices,
                        in_stock : BOOLEAN] : DecLE(q.lowest, q.highest)}
    /\ q_out = [called |-> FALSE, notify |-> FALSE, reason |-> "", payload |-> NoPayload]
    /\ DeliverIdle
    /\ ProcessIdle
    /\ FunctionIdle

Decide ==
    /\ ~q_out.called
    /\ LET stats == [present |-> TRUE,
                     current_price |-> q_in.current,
                     lowest_historical |-> q_in.lowest,
                     highest_historical |-> q_in.highest,
                     all_historical_prices |-> <<q_in.lowest, q_in.highest>>]
           d == check_notification_conditions(q_in.in_stock, stats)
           \* Lines 598-602: the formatter is called when decide notifies.
           payload == IF d.notify
                      THEN prepare_notification_details(Item("A", None, q_in.in_stock),
                                                        stats, d.reason)
                      ELSE NoPayload
       IN q_out' = [called |-> TRUE, notify |-> d.notify, reason |-> d.reason,
                    payload |-> payload]
    /\ UNCHANGED <<q_in, dvars, cvars, fvars>>

NextDecide == Decide

SpecDecide == InitDecide /\ [][NextDecide]_vars

(***************************************************************************)
(* Spec: the process.  __main__ calls check_prices once (line 660) and     *)
(* then from the scheduling loop (lines 667-670); check_prices runs one    *)
(* item, and one notification, per step.                                   *)
(***************************************************************************)
\* With persistence disabled neither max_sku_entries nor the file is ever
\* read, so one value of each stands for all.
InitProcess ==
    /\ cfg \in PersistenceConfigs
    /\ up \in Upstreams
    /\ file \in InitialFiles
    /\ ~cfg.enabled => cfg.max_sku_entries = 1 /\ file = FileMissing
    /\ now = 0
    /\ proc = "start"
    /\ pc = "idle"
    /\ sku_fetch_timestamps = <<>>
    /\ loaded = <<>>
    /\ all_items_data = <<>>
    /\ i = 1
    /\ items_to_notify = <<>>
    /\ j = 1
    /\ fetch_log = <<>>
    /\ deliveries = <<>>
    /\ cycle = NoCycle
    /\ prev = NoPrev
    /\ DeliverIdle
    /\ DecideIdle
    /\ FunctionIdle

LogEntry(idx, sku, outcome, at) == [idx |-> idx, sku |-> sku, outcome |-> outcome, at |-> at]

\* The summary of a cycle that returned: the SKUs whose history it fetched
\* or skipped on cooldown, the fetches with their time, the SKUs it sent a
\* notification for, and those of them whose delivery returned false.
Summary(log, sent) ==
    [done |-> TRUE,
     handled |-> {log[k].sku : k \in {m \in DOMAIN log :
                                       log[m].outcome \in {"fetched", "cooldown"}}},
     fetched |-> {[sku |-> log[k].sku, t |-> log[k].at] :
                     k \in {m \in DOMAIN log : log[m].outcome = "fetched"}},
     notified |-> {sent[k].sku : k \in DOMAIN sent},
     failed |-> {sent[k].sku : k \in {m \in DOMAIN sent : sent[m].result = "false"}}]

\* check_prices returns to its caller, which is or becomes the loop.
Returns(log, sent, saved) ==
    /\ pc' = "idle"
    /\ proc' = "loop"
    /\ cycle' = [status |-> "returned", saved |-> saved]
    /\ prev' = Summary(log, sent)

\* An exception leaves check_prices.  The call of line 660 is outside any
\* try: the process dies.  In the loop, "except Exception" (line 673) logs it
\* and the loop is left: the process ends.
Raises(caller, saved) ==
    /\ pc' = "idle"
    /\ proc' = IF caller = "first_call" THEN "crashed" ELSE "stopped"
    /\ cycle' = [status |-> "raised", saved |-> saved]
    /\ prev' = prev

\* Lines 605-629: load the store, read the total count and the item batch.
StartCycle ==
    /\ proc \in {"start", "loop"}
    /\ pc = "idle"
    /\ LET caller == IF proc = "start" THEN "first_call" ELSE "scheduled_call"
           ld == load_sku_fetch_timestamps(cfg, file)
           total_items == get_total_count(up.total)
           all_items == get_all_items(total_items.count, up.batch)
       IN /\ sku_fetch_timestamps' = ld.store
          /\ loaded' = ld.store
          /\ fetch_log' = <<>>
          /\ deliveries' = <<>>
          /\ items_to_notify' = <<>>
          /\ i' = 1
          /\ j' = 1
          /\ IF ld.exc # "none" \/ total_items.exc # "none"
             THEN /\ Raises(caller, FALSE)
                  /\ UNCHANGED <<file, all_items_data>>
             ELSE IF total_items.isNone \/ all_items.isNone
             THEN /\ file' = save_sku_fetch_timestamps(cfg, file, ld.store)
                  /\ Returns(<<>>, <<>>, cfg.enabled)
                  /\ UNCHANGED all_items_data
             ELSE /\ all_items_data' = all_items.items
                  /\ pc' = "items"
                  /\ proc' = caller
                  /\ cycle' = [status |-> "running", saved |-> FALSE]
                  /\ UNCHANGED <<file, prev>>
    /\ UNCHANGED <<cfg, up, now, dvars, qvars, fvars>>

\* Lines 631-638: one iteration of the item loop, its delay included.
ProcessItem ==
    /\ pc = "items"
    /\ i <= Len(all_items_data)
    /\ LET item == all_items_data[i]
           answer == IF item.Sku \in SKUs THEN up.hist[item.Sku] ELSE HistError
           r == process_item_history(cfg, item, answer, sku_fetch_timestamps, now)
       IN /\ sku_fetch_timestamps' = r.store
          /\ fetch_log' = Append(fetch_log, LogEntry(i, item.Sku, r.outcome, now))
          /\ IF r.exc # "none"
             THEN /\ Raises(proc, cycle.saved)
                  /\ UNCHANGED <<i, items_to_notify>>
             ELSE /\ items_to_notify' = IF r.payload # NoPayload
                                        THEN Append(items_to_notify, r.payload)
                                        ELSE items_to_notify
                  /\ i' = i + 1
                  /\ UNCHANGED <<pc, proc, cycle, prev>>
          \* Lines 636-638: the delay before the next item lets the clock move.
          /\ IF r.exc = "none" /\ i < Len(all_items_data) /\ now < MaxTime
             THEN now' \in {now, now + 1}
             ELSE now' = now
    /\ UNCHANGED <<cfg, up, file, loaded, all_items_data, j, deliveries, dvars, qvars, fvars>>

\* Lines 640-641 left out: the notifications start with nothing pruned or
\* saved.
FinishItemsWithoutSave ==
    /\ pc = "items"
    /\ i > Len(all_items_data)
    /\ pc' = "notify"
    /\ j' = 1
    /\ UNCHANGED <<cfg, up, file, now, proc, sku_fetch_timestamps, loaded, all_items_data,
                   i, items_to_notify, fetch_log, deliveries, cycle, prev, dvars, qvars,
                   fvars>>

\* Lines 640-641: prune and save, once the loop is through.
FinishItems ==
    /\ pc = "items"
    /\ i > Len(all_items_data)
    /\ LET managed == manage_sku_fetch_timestamps(cfg, sku_fetch_timestamps)
       IN /\ sku_fetch_timestamps' = managed
          /\ file' = save_sku_fetch_timestamps(cfg, file, managed)
    /\ cycle' = [cycle EXCEPT !.saved = cfg.enabled]
    /\ pc' = "notify"
    /\ j' = 1
    /\ UNCHANGED <<cfg, up, now, proc, loaded, all_items_data, i, items_to_notify,
                   fetch_log, deliveries, prev, dvars, qvars, fvars>>

\* Lines 645-646 with a delivery that, when it fails, takes the SKU's entry
\* out of the store and of the file again.
NotifyForgetsOnFailure ==
    /\ pc = "notify"
    /\ j <= Len(items_to_notify)
    /\ \E o \in TransportOutcomes :
         LET st == send_discord_webhook_message(d_cfg, o)
             sku == items_to_notify[j].Sku
             kept == IF st.value = "false"
                     THEN SelectSeq(sku_fetch_timestamps, LAMBDA e : e.sku # sku)
                     ELSE sku_fetch_timestamps
         IN /\ deliveries' = Append(deliveries, [sku |-> sku, result |-> st.value])
            /\ sku_fetch_timestamps' = kept
            /\ file' = save_sku_fetch_timestamps(cfg, file, kept)
            /\ IF st.next = "raise"
               THEN Raises(proc, cycle.saved) /\ UNCHANGED j
               ELSE j' = j + 1 /\ UNCHANGED <<pc, proc, cycle, prev>>
    /\ UNCHANGED <<cfg, up, now, loaded, all_items_data, i,
                   items_to_notify, fetch_log, dvars, qvars, fvars>>

\* Lines 645-646: one send_discord_notification, whose webhook answers every
\* attempt of the call the same way.
NotifyStopsOnFailure ==
    /\ pc = "notify"
    /\ j <= Len(items_to_notify)
    /\ \E o \in TransportOutcomes :
         LET st == send_discord_webhook_message(d_cfg, o)
         IN /\ deliveries' = Append(deliveries,
                                    [sku |-> items_to_notify[j].Sku, result |-> st.value])
            /\ IF st.next = "raise"
               THEN Raises(proc, cycle.saved) /\ UNCHANGED j
               ELSE /\ j' = IF st.value = "true" THEN j + 1 ELSE Len(items_to_notify) + 1
                    /\ UNCHANGED <<pc, proc, cycle, prev>>
    /\ UNCHANGED <<cfg, up, file, now, sku_fetch_timestamps, loaded, all_items_data, i,
                   items_to_notify, fetch_log, dvars, qvars, fvars>>
Notify ==
    /\ pc = "notify"
    /\ j <= Len(items_to_notify)
    /\ \E o \in TransportOutcomes :
         LET st == send_discord_webhook_message(d_cfg, o)
         IN /\ deliveries' = Append(deliveries,
                                    [sku |-> items_to_notify[j].Sku, result |-> st.value])
            /\ IF st.next = "raise"
               THEN Raises(proc, cycle.saved) /\ UNCHANGED j
               ELSE j' = j + 1 /\ UNCHANGED <<pc, proc, cycle, prev>>
    /\ UNCHANGED <<cfg, up, file, now, sku_fetch_timestamps, loaded, all_items_data, i,
                   items_to_notify, fetch_log, dvars, qvars, fvars>>

\* Line 649: the job is finished.
CycleReturn ==
    /\ pc = "notify"
    /\ j > Len(items_to_notify)
    /\ Returns(fetch_log, deliveries, cycle.saved)
    /\ UNCHANGED <<cfg, up, file, now, sku_fetch_timestamps, loaded, all_items_data, i,
                   items_to_notify, j, fetch_log, deliveries, dvars, qvars, fvars>>

\* Lines 668-670: the loop waits; no cycle is due yet.
Tick ==
    /\ proc = "loop"
    /\ now < MaxTime
    /\ now' = now + 1
    /\ UNCHANGED <<cfg, up, file, proc, pc, sku_fetch_timestamps, loaded, all_items_data,
                   i, items_to_notify, j, fetch_log, deliveries, cycle, prev, dvars, qvars, fvars>>

Next == StartCycle \/ ProcessItem \/ FinishItems \/ Notify \/ CycleReturn \/ Tick

Spec == InitProcess /\ [][Next]_vars

(***************************************************************************)
(* SpecOrder: the process on batches in which two SKUs can be eligible     *)
(* (SKU B is also offered at 30), with well-formed items and answers.      *)
(***************************************************************************)
OrderFixtures ==
    {Item("A", Price30, FALSE), Item("B", Price30, TRUE), Item("B", Price60, TRUE)}
OrderLists == UNION {[1..n -> OrderFixtures] : n \in 0..MaxItems}
OrderUpstreams ==
    {[total |-> TotalAnswer("count", 1), batch |-> BatchList(l), hist |-> h] :
        l \in OrderLists, h \in {[s \in SKUs |-> HistSeries(SeriesFixture)]}}
OrderFiles ==
    {FileMissing, [kind |-> "unwritable", data |-> <<Entry("B", isoformat(0))>>]}

InitOrder ==
    /\ cfg \in PersistenceConfigs
    /\ up \in OrderUpstreams
    /\ file \in OrderFiles
    /\ ~cfg.enabled => cfg.max_sku_entries = 1 /\ file = FileMissing
    /\ now = 0
    /\ proc = "start"
    /\ pc = "idle"
    /\ sku_fetch_timestamps = <<>>
    /\ loaded = <<>>
    /\ all_items_data = <<>>
    /\ i = 1
    /\ items_to_notify = <<>>
    /\ j = 1
    /\ fetch_log = <<>>
    /\ deliveries = <<>>
    /\ cycle = NoCycle
    /\ prev = NoPrev
    /\ DeliverIdle
    /\ DecideIdle
    /\ FunctionIdle

\* One cycle follows the other without a wait of the loop in between; the
\* clock moves in the delays of the item loop.
NextOrder == StartCycle \/ ProcessItem \/ FinishItems \/ Notify \/ CycleReturn

SpecOrder == InitOrder /\ [][NextOrder]_vars

(***************************************************************************)
(* SpecInterrupt: the process, and a KeyboardInterrupt that the signal     *)
(* raises in the main thread wherever it stands.  No handler inside        *)
(* check_prices catches it ("except Exception" and the requests and IO     *)
(* clauses do not name a BaseException), so it leaves the cycle at once:   *)
(* to line 671 from the loop, out of the process from the call of line     *)
(* 660.  When it arrives between the open(.., 'w') of line 162, which      *)
(* empties the file, and the end of json.dump (line 163), the file is left *)
(* with a part of the JSON text, which json.load rejects.                  *)
(***************************************************************************)
PartialFile == [kind |-> "corrupt", data |-> <<>>]

Interrupt ==
    /\ proc \in {"start", "first_call", "scheduled_call", "loop"}
    /\ proc' = "interrupted"
    /\ pc' = "idle"
    /\ cycle' = IF pc = "idle" THEN cycle
                ELSE [status |-> "interrupted", saved |-> cycle.saved]
    /\ IF pc = "items" /\ i > Len(all_items_data) /\ cfg.enabled
       THEN file' \in {file, PartialFile}         \* before, or inside, the write
       ELSE file' = file
    /\ UNCHANGED <<cfg, up, now, sku_fetch_timestamps, loaded, all_items_data, i,
                   items_to_notify, j, fetch_log, deliveries, prev, dvars, qvars, fvars>>

NextInterrupt ==
    StartCycle \/ ProcessItem \/ FinishItems \/ Notify \/ CycleReturn \/ Tick \/ Interrupt

SpecInterrupt == InitProcess /\ [][NextInterrupt]_vars

(***************************************************************************)
(* One call of manage_sku_fetch_timestamps on a store of distinct SKUs.    *)
(***************************************************************************)
StoreSkus == {"A", "B", "C"}
Timestamps == {isoformat(t) : t \in 0..MaxTime} \cup {BadTimestamp}
\* The dicts over StoreSkus, in every insertion order.
Stores ==
    UNION {{st \in [1..n -> [sku : StoreSkus, ts : Timestamps]] :
               \A a, b \in 1..n : a # b => st[a].sku # st[b].sku} :
           n \in 0..Cardinality(StoreSkus)}
PruneConfigs ==
    [enabled : BOOLEAN,
     max_sku_entries : 0..MaxEntriesBound,
     sku_fetch_cooldown_hours : {CooldownHours}]

InitPrune ==
    /\ f_in \in [fn : {"manage_sku_fetch_timestamps"}, cfg : PruneConfigs, store : Stores]
    /\ f_out = NotCalled
    /\ DeliverIdle
    /\ DecideIdle
    /\ ProcessIdle

PruneCall ==
    /\ f_in.fn = "manage_sku_fetch_timestamps"
    /\ ~f_out.called
    /\ f_out' = [called |-> TRUE, exc |-> "none",
                 value |-> manage_sku_fetch_timestamps(f_in.cfg, f_in.store)]
    /\ UNCHANGED <<f_in, dvars, qvars, cvars>>

NextPrune == PruneCall

SpecPrune == InitPrune /\ [][NextPrune]_vars

(***************************************************************************)
(* SpecStats: one call of _calculate_price_stats on the '1P' list of a     *)
(* history JSON.  A 'y' value is None or the text str() gives for it.      *)
(***************************************************************************)
MaxSeriesLen == 3

Nines == [k \in 1..DecimalPrec |-> "9"]     \* the whole number 10^28 - 1
RawPrices ==
    {None, <<"1", "0">>, <<"1", "0", ".", "5">>, <<"0", ".", "1">>, <<"-", "5">>, Nines}
RawSeries == UNION {[1..n -> RawPrices] : n \in 0..MaxSeriesLen}

InitStats ==
    /\ f_in \in [fn : {"_calculate_price_stats"}, history_1p : RawSeries,
                 current_price_str : {None, <<"1", "0">>}]
    /\ f_out = [called |-> FALSE, exc |-> "none", value |-> NoStats]
    /\ DeliverIdle
    /\ DecideIdle
    /\ ProcessIdle

StatsCall ==
    /\ f_in.fn = "_calculate_price_stats"
    /\ ~f_out.called
    /\ f_out' = [called |-> TRUE, exc |-> "none",
                 value |-> calculate_price_stats(f_in.history_1p, f_in.current_price_str)]
    /\ UNCHANGED <<f_in, dvars, qvars, cvars>>

NextStats == StatsCall

SpecStats == InitStats /\ [][NextStats]_vars

(***************************************************************************)
(* SpecNormalize: one call of safe_decimal on None or on the text str()    *)
(* gives for the value: every text of at most MaxTextLen characters of     *)
(* TextAlphabet, and the text "$1,234.56".                                 *)
(***************************************************************************)
MaxTextLen == 4

TextAlphabet == {" ", "-", ".", "$", "0", "5", SuperscriptTwo}
Texts == UNION {[1..n -> TextAlphabet] : n \in 0..MaxTextLen}
DollarText == <<"$", "1", ",", "2", "3", "4", ".", "5", "6">>
RawValues == {None, DollarText} \cup Texts

InitNormalize ==
    /\ f_in \in [fn : {"safe_decimal"}, value : RawValues]
    /\ f_out = [called |-> FALSE, exc |-> "none", value |-> DecZero]
    /\ DeliverIdle
    /\ DecideIdle
    /\ ProcessIdle

NormalizeCall ==
    /\ f_in.fn = "safe_decimal"
    /\ ~f_out.called
    /\ f_out' = [called |-> TRUE, exc |-> safe_decimal_raises(f_in.value),
                 value |-> safe_decimal(f_in.value)]
    /\ UNCHANGED <<f_in, dvars, qvars, cvars>>

NextNormalize == NormalizeCall

SpecNormalize == InitNormalize /\ [][NextNormalize]_vars

(***************************************************************************)
(* Claims about the delivery engine, checked under SpecDeliver.            *)
(***************************************************************************)
AttemptIndexes == {k \in DOMAIN d_trace : d_trace[k].ev = "attempt"}
SleepIndexes == {k \in DOMAIN d_trace : d_trace[k].ev = "sleep"}
NumAttempts == Cardinality(AttemptIndexes)
DeliverEnded == d_pc \in {"returned", "raised"}

\* The outcomes the claims call rate-limited, timeout or network error.
IsRetryableOutcome(o) ==
    \/ o.kind \in {"timeout", "network"}
    \/ o.kind = "response" /\ o.status = 429
\* A transport response carrying one of the two success codes.
IsSuccessOutcome(o) == o.kind = "response" /\ o.status \in {200, 204}
\* A non-success status other than 429, or an unexpected error class.
IsFatalOutcome(o) ==
    \/ o.kind = "unexpected"
    \/ o.kind = "response" /\ o.status \notin {200, 204, 429}

\* C1: a call makes at most max_retries transport attempts; when every attempt
\* ended rate-limited or in a timeout/network error, the call (of a configured
\* webhook) has returned false after exactly max_retries attempts, and nothing
\* more can happen in it.
C1_BoundedAttempts ==
    /\ NumAttempts <= d_cfg.max_retries
    /\ (/\ DeliverEnded
        /\ d_cfg.webhook_url
        /\ \A k \in AttemptIndexes : IsRetryableOutcome(d_trace[k].o))
       => /\ d_pc = "returned"
          /\ d_result = "false"
          /\ NumAttempts = d_cfg.max_retries
    /\ DeliverEnded => ~ENABLED NextDeliver

\* Witness of C1: three attempts, all retryable, and the call returned false.
C1_Witness ==
    /\ d_pc = "returned"
    /\ d_result = "false"
    /\ d_cfg.max_retries = 3
    /\ NumAttempts = 3
    /\ \A k \in AttemptIndexes : IsRetryableOutcome(d_trace[k].o)
    /\ \E k \in AttemptIndexes : d_trace[k].o.kind = "timeout"
    /\ \E k \in AttemptIndexes : d_trace[k].o.kind = "response"

\* C2: the call returns true exactly when one of its attempts received a
\* response with status 200 or 204; that attempt is the last event of the call
\* (no attempt and no sleep follows it); every other ending returns false.
C2_TrueIffSuccessStatus ==
    /\ \A k \in AttemptIndexes :
          IsSuccessOutcome(d_trace[k].o)
          => k = Len(d_trace) /\ d_pc = "returned" /\ d_result = "true"
    /\ DeliverEnded
       => /\ d_result \in {"true", "false"}
          /\ (d_result = "true"
              <=> \E k \in AttemptIndexes : IsSuccessOutcome(d_trace[k].o))

\* Witness of C2: a call that succeeded on a retry, after a sleep.
C2_Witness ==
    /\ d_pc = "returned"
    /\ d_result = "true"
    /\ Len(d_trace) = 3
    /\ d_trace[2].ev = "sleep"
    /\ d_trace[3].o.status = 204

\* C3: after a rate-limited attempt whose Retry-After hint parses (to a wait
\* that is not negative) and with attempts remaining, the next event is one
\* sleep of the hinted seconds plus 1, followed by the next attempt.
C3_RetryAfterSleep ==
    \A k \in AttemptIndexes :
        LET e == d_trace[k]
        IN (/\ e.o.kind = "response" /\ e.o.status = 429
            /\ e.o.retry_after.kind = "num"
            /\ TruncTowardZero(e.o.retry_after.tenths) + 1 >= 0
            /\ AttemptsRemain(e.n, d_cfg.max_retries))
           => /\ k < Len(d_trace)
              /\ d_trace[k + 1].ev = "sleep"
              /\ d_trace[k + 1].secs = TruncTowardZero(e.o.retry_after.tenths) + 1
              /\ (k + 2 <= Len(d_trace) => d_trace[k + 2].ev = "attempt")

\* C4: an attempt that ends in a non-success status other than 429, or in an
\* unexpected error class, is the last event of the call, which returned false.
C4_FatalIsTerminal ==
    \A k \in AttemptIndexes :
        IsFatalOutcome(d_trace[k].o)
        => /\ k = Len(d_trace)
           /\ d_pc = "returned"
           /\ d_result = "false"

\* Witness of C4: a 404 on the first of three permitted attempts.
C4_Witness ==
    /\ d_cfg.max_retries = 3
    /\ d_pc = "returned"
    /\ Len(d_trace) = 1
    /\ d_trace[1].o.kind = "response"
    /\ d_trace[1].o.status = 404

\* C5: the call never raises: whatever the transport did on each attempt and
\* whatever Retry-After value a 429 carried, it ends by returning a boolean.
C5_NeverRaises ==
    /\ d_pc # "raised"
    /\ DeliverEnded => d_result \in {"true", "false"}

\* Witness of C5: the call has ended after a 429 that carried a non-finite
\* Retry-After and one that carried a negative one, with attempts remaining.
C5_Witness ==
    /\ DeliverEnded
    /\ \E k \in AttemptIndexes :
          /\ d_trace[k].o.retry_after.kind = "inf"
          /\ AttemptsRemain(d_trace[k].n, d_cfg.max_retries)
    /\ \E k \in AttemptIndexes :
          /\ d_trace[k].o.retry_after.kind = "num"
          /\ d_trace[k].o.retry_after.tenths < -10
          /\ AttemptsRemain(d_trace[k].n, d_cfg.max_retries)

(***************************************************************************)
(* Claims about the eligibility rule, checked under SpecDecide.  The       *)
(* inputs are whole numbers, so 0.5 and 0.9 are cleared from the           *)
(* comparisons.                                                            *)
(***************************************************************************)
RECURSIVE MagValue(_)
MagValue(d) ==
    IF d = <<>> THEN 0 ELSE 10 * MagValue(SubSeq(d, 1, Len(d) - 1)) + d[Len(d)]
WholeValue(a) == (IF a.neg THEN -1 ELSE 1) * MagValue(a.digs)
Cur == WholeValue(q_in.current)
Low == WholeValue(q_in.lowest)
High == WholeValue(q_in.highest)
ClaimedSubA == Cur = Low /\ q_in.in_stock

\* C6 as stated: notify is true exactly when stage 1 holds (current < 0.5 *
\* highest when highest > 0; current < 0 when highest = 0) and (a) current =
\* lowest and in stock, or (b) current <= 0.9 * lowest when lowest > 0,
\* current < lowest when lowest = 0.
C6_AsStated ==
    q_out.called
    => (q_out.notify
        <=> /\ \/ High > 0 /\ 2 * Cur < High
               \/ High = 0 /\ Cur < 0
            /\ \/ ClaimedSubA
               \/ Low > 0 /\ 10 * Cur <= 9 * Low
               \/ Low = 0 /\ Cur < Low)

\* C6 as amended: the second case of stage 1 is highest <= 0 and the second
\* case of (b) is lowest <= 0; notify is true exactly when stage 1 holds and
\* (a) or (b) holds.
C6_DecideIff ==
    q_out.called
    => (q_out.notify
        <=> /\ \/ High > 0 /\ 2 * Cur < High
               \/ High <= 0 /\ Cur < 0
            /\ \/ ClaimedSubA
               \/ Low > 0 /\ 10 * Cur <= 9 * Low
               \/ Low <= 0 /\ Cur < Low)

\* Witness of C6: a notification for a series whose highest price is negative.
C6_Witness ==
    /\ q_out.called
    /\ q_out.notify
    /\ High < 0

\* Sub-condition (b) on the whole-number prices of SpecDecide.
ClaimedSubB ==
    \/ Low > 0 /\ 10 * Cur <= 9 * Low
    \/ Low <= 0 /\ Cur < 0 /\ Cur < Low

\* C20: when decide notifies and sub-condition (a) holds, whether or not (b)
\* holds too, the reason is (a)'s ATL-restock reason; (b)'s reason is returned
\* only when (b) holds and (a) does not; and the reason is empty exactly when
\* notify is false.
C20_ReasonTieBreak ==
    q_out.called
    => /\ (q_out.notify /\ ClaimedSubA) => q_out.reason = "ATL restock"
       /\ q_out.reason = "below ATL" => (q_out.notify /\ ClaimedSubB /\ ~ClaimedSubA)
       /\ q_out.reason = "" <=> ~q_out.notify
       /\ q_out.reason \in {"ATL restock", "below ATL", ""}

\* C20's case: a notification for an in-stock item whose price equals the
\* lowest price, with (a)'s reason.
C20_Witness ==
    /\ q_out.called
    /\ q_out.notify
    /\ ClaimedSubA
    /\ q_out.reason = "ATL restock"

\* Sub-conditions (a) and (b) never hold together: (a) needs the price equal
\* to the lowest and (b) needs it below the lowest.
C20_NeverBoth == q_out.called => ~(ClaimedSubA /\ ClaimedSubB)

(***************************************************************************)
(* Claims about the cycle and the process, checked under Spec.             *)
(***************************************************************************)
InCycle == pc # "idle"
CycleEnded == cycle.status \in {"returned", "raised"}

\* SKU s has, in the store this cycle loaded, a timestamp that parses and is
\* inside the cooldown window now (and so was at every earlier moment of the
\* cycle), with persistence enabled.
LoadedInsideWindow(s) ==
    /\ cfg.enabled
    /\ \E k \in DOMAIN loaded :
          /\ loaded[k].sku = s
          /\ loaded[k].ts.kind = "iso"
          /\ now - loaded[k].ts.t < cfg.sku_fetch_cooldown_hours

\* C7 as stated: in a cycle that follows a completed cycle on the same
\* upstream, with persistence enabled and every history fetch of the earlier
\* cycle less than the cooldown window ago, no notification is sent, whatever
\* the batch size and max_sku_entries.
C7_AsStated ==
    (/\ InCycle
     /\ prev.done
     /\ cfg.enabled
     /\ \A f \in prev.fetched : now - f.t < cfg.sku_fetch_cooldown_hours)
    => deliveries = <<>>

\* C7 as amended: in a cycle that follows a completed cycle on the same
\* upstream, if every SKU the earlier cycle fetched or skipped on cooldown
\* has, in the store this cycle loaded, an entry inside the cooldown window,
\* then no item is found eligible and no notification is sent.
C7_Idempotent ==
    (/\ InCycle
     /\ prev.done
     /\ \A s \in prev.handled : LoadedInsideWindow(s))
    => items_to_notify = <<>> /\ deliveries = <<>>

\* Witness of C7: the second cycle is at its end, it skipped on cooldown a SKU
\* the first cycle sent a notification for, and the amended condition holds.
C7_Witness ==
    /\ pc = "notify"
    /\ j > Len(items_to_notify)
    /\ prev.done
    /\ prev.notified # {}
    /\ \A s \in prev.handled : LoadedInsideWindow(s)
    /\ \E k \in DOMAIN fetch_log :
          fetch_log[k].outcome = "cooldown" /\ fetch_log[k].sku \in prev.notified

\* The store file and the JSON of the total count and of the histories are
\* well formed: what can go wrong in a cycle is a failing read or a
\* malformed item.
OnlyReadFailuresAndBadItems ==
    /\ file.kind # "not_object"
    /\ up.total.kind # "not_dict"
    /\ \A s \in SKUs : up.hist[s].kind # "not_dict"

\* C8: with persistence enabled, a cycle that has ended has written the
\* store, whether a read failed in it or an item of the batch was malformed.
C8_AlwaysSaves ==
    (cfg.enabled /\ CycleEnded /\ OnlyReadFailuresAndBadItems) => cycle.saved

\* C9: no error leaves a cycle, and the process stays in its loop: it neither
\* dies on the first call nor leaves the scheduling loop.
C9_SurvivesCycle ==
    /\ cycle.status # "raised"
    /\ proc \notin {"crashed", "stopped"}

UpstreamListFails == up.total.kind \in {"error", "no_count"} \/ up.total.count <= 0
                     \/ up.batch.kind = "error"

\* C10 as stated: after a failing read the cycle processes nothing more: no
\* item when the total-count or the batch read failed, and no item after an
\* item whose history read failed.
C10_AsStated ==
    /\ UpstreamListFails => fetch_log = <<>>
    /\ \A k \in DOMAIN fetch_log :
          fetch_log[k].outcome = "error" => k = Len(fetch_log)

\* C10 as amended: a failing total-count or batch read ends the cycle before
\* any item is processed; a failing history read skips that item only: the
\* loop goes on, and a cycle that got its batch and returned has processed
\* every item of it, the ones after a failing read included.
C10_AbortOnlyOnListReads ==
    /\ UpstreamListFails => pc = "idle" /\ fetch_log = <<>> /\ cycle.status # "running"
    /\ pc = "items" => Len(fetch_log) = i - 1
    /\ pc = "notify" => Len(fetch_log) = Len(all_items_data)
    /\ (cycle.status = "returned" /\ ~UpstreamListFails)
       => Len(fetch_log) = Len(up.batch.items)

\* Witness of C10: a history read failed and the item after it was processed.
C10_Witness ==
    /\ Len(fetch_log) = 2
    /\ fetch_log[1].outcome = "error"
    /\ fetch_log[2].outcome = "fetched"
    /\ cycle.status = "returned"

(***************************************************************************)
(* Claims about the notification loop, checked under Spec.                 *)
(***************************************************************************)
\* Item k of the batch is eligible: its history was fetched in this cycle
\* and the decision on its statistics is to notify.
Eligible(k) ==
    /\ k \in DOMAIN fetch_log
    /\ fetch_log[k].outcome = "fetched"
    /\ all_items_data[k].Sku \in SKUs
    /\ up.hist[all_items_data[k].Sku].kind = "series"
    /\ LET stats == calculate_price_stats(up.hist[all_items_data[k].Sku].prices,
                                          all_items_data[k].NewPrice)
       IN stats.present
          /\ check_notification_conditions(all_items_data[k].InStock, stats).notify
EligibleIndexes == {k \in DOMAIN fetch_log : Eligible(k)}

\* C11: within one cycle the delivery is invoked exactly once for every
\* eligible item, in order, whatever the earlier deliveries returned: the
\* list of items to notify holds exactly the eligible items, the k-th
\* delivery is for the k-th of them, and a cycle that returned made as many
\* deliveries as there were eligible items.
C11_EveryEligibleDelivered ==
    /\ pc = "notify" \/ cycle.status = "returned"
       => Len(items_to_notify) = Cardinality(EligibleIndexes)
    /\ Len(deliveries) <= Len(items_to_notify)
    /\ \A k \in DOMAIN deliveries : deliveries[k].sku = items_to_notify[k].Sku
    /\ pc = "notify" => Len(deliveries) = j - 1
    /\ cycle.status = "returned" => Len(deliveries) = Len(items_to_notify)

\* Witness of C11: a cycle returned after two deliveries, the first of which
\* failed and the second of which succeeded.
C11_Witness ==
    /\ cycle.status = "returned"
    /\ Len(deliveries) = 2
    /\ deliveries[1].result = "false"
    /\ deliveries[2].result = "true"

(***************************************************************************)
(* Claims about the cooldown, checked under Spec.                          *)
(***************************************************************************)
\* The successful history fetches of SKU s before log entry k: those of the
\* cycle before this one and those earlier in this cycle, with their times.
EarlierFetches(k) ==
    (IF InCycle THEN prev.fetched ELSE {})
    \cup {[sku |-> fetch_log[m].sku, t |-> fetch_log[m].at] :
             m \in {n \in 1..(k - 1) : fetch_log[n].outcome = "fetched"}}

\* C12 as stated: with persistence enabled, an item whose SKU was fetched at
\* a time T less than the cooldown window ago is skipped on cooldown.
C12_AsStated ==
    cfg.enabled
    => \A k \in DOMAIN fetch_log :
          \A f \in EarlierFetches(k) :
              (f.sku = fetch_log[k].sku
               /\ fetch_log[k].at - f.t < cfg.sku_fetch_cooldown_hours)
              => fetch_log[k].outcome = "cooldown"

\* The step is one iteration of the item loop on an item that carries SKU s.
ProcessesSku(s) ==
    /\ pc = "items"
    /\ Len(fetch_log') = Len(fetch_log) + 1
    /\ all_items_data[i].kind = "dict"
    /\ all_items_data[i].Sku = s
LastOutcome == fetch_log'[Len(fetch_log')].outcome

\* The store holds for SKU s a parseable timestamp T with now - T < window.
EntryInsideWindow(s) ==
    \E k \in DOMAIN sku_fetch_timestamps :
        /\ sku_fetch_timestamps[k].sku = s
        /\ sku_fetch_timestamps[k].ts.kind = "iso"
        /\ now - sku_fetch_timestamps[k].ts.t < cfg.sku_fetch_cooldown_hours

\* C12 as amended: with persistence enabled, in every iteration of the item
\* loop the history call of the item's SKU is skipped exactly when the store
\* holds for it a parseable timestamp T with now - T < cooldown window, and
\* a fetch that returned a non-empty history records the time of the fetch
\* as the SKU's timestamp; with persistence disabled nothing is skipped.
C12_CooldownWindow ==
    [][\A s \in SKUs :
          ProcessesSku(s)
          => /\ (LastOutcome = "cooldown") <=> (cfg.enabled /\ EntryInsideWindow(s))
             /\ (cfg.enabled /\ LastOutcome = "fetched")
                => \E k \in DOMAIN sku_fetch_timestamps' :
                      /\ sku_fetch_timestamps'[k].sku = s
                      /\ sku_fetch_timestamps'[k].ts = [kind |-> "iso", t |-> now]
                      /\ \A m \in DOMAIN sku_fetch_timestamps' :
                            sku_fetch_timestamps'[m].sku = s => m = k]_vars

\* Witness of C12: SKU A, fetched at time T in the cycle before, is fetched
\* again exactly one window after T and then skipped by a second item that
\* carries it in the same cycle.
C12_Witness ==
    /\ cfg.enabled
    /\ \E f \in prev.fetched :
          /\ f.sku = "A"
          /\ \E k \in DOMAIN fetch_log :
                /\ fetch_log[k].sku = "A"
                /\ fetch_log[k].outcome = "fetched"
                /\ fetch_log[k].at = f.t + cfg.sku_fetch_cooldown_hours
    /\ \E k \in DOMAIN fetch_log :
          fetch_log[k].sku = "A" /\ fetch_log[k].outcome = "cooldown"
    /\ InCycle

(***************************************************************************)
(* Claims about pruning, checked under SpecPrune.                          *)
(***************************************************************************)
AllParseable(store) == \A k \in DOMAIN store : store[k].ts.kind = "iso"
Entries(store) == {store[k] : k \in DOMAIN store}
\* kept is store without some of its entries, the others in their order.
IsRestOf(kept, store) == kept = SelectSeq(store, LAMBDA e : e \in Entries(kept))

\* C13: with persistence enabled, pruning a store of N+k entries, all with
\* parseable timestamps, under max_entries = N and k > 0 keeps exactly N
\* entries of the store and removes k, and no removed entry is newer than a
\* kept one; a store of at most N entries is returned unchanged.
C13_PrunesOldest ==
    (f_out.called /\ f_in.cfg.enabled /\ AllParseable(f_in.store))
    => LET N == f_in.cfg.max_sku_entries
           store == f_in.store
           kept == f_out.value
       IN IF Len(store) <= N
          THEN kept = store
          ELSE /\ Len(kept) = N
               /\ IsRestOf(kept, store)
               /\ \A r \in Entries(store) \ Entries(kept) :
                     \A e \in Entries(kept) : r.ts.t <= e.ts.t

\* Witness of C13: three entries with distinct timestamps, the oldest in the
\* middle, pruned to the two newest.
C13_Witness ==
    /\ f_out.called
    /\ f_in.cfg.enabled
    /\ f_in.cfg.max_sku_entries = 2
    /\ f_in.store = <<Entry("A", isoformat(2)), Entry("B", isoformat(0)),
                      Entry("C", isoformat(1))>>
    /\ f_out.value = <<Entry("A", isoformat(2)), Entry("C", isoformat(1))>>

(***************************************************************************)
(* Claims about the size of the store, checked under Spec.                 *)
(***************************************************************************)
\* The end-of-cycle save of lines 640-641 was made in this cycle, with
\* persistence enabled.
EndOfCycleSaved == cfg.enabled /\ pc = "notify"
Parseable(store) == SelectSeq(store, LAMBDA e : e.ts.kind = "iso")

\* C14 as stated: the store written by the end-of-cycle save holds at most
\* max_entries entries, whatever store was loaded.
C14_AsStated ==
    EndOfCycleSaved => file.kind = "json_object" /\ Len(file.data) <= cfg.max_sku_entries

\* C14 as amended: the store written by the end-of-cycle save is the store
\* of the cycle, and it holds at most max_entries entries with parseable
\* timestamps; an entry with an unparseable timestamp stays unless a fetch
\* of the cycle overwrote it, so the bound holds for the whole store when
\* every loaded timestamp parses.
C14_ParseableBounded ==
    EndOfCycleSaved
    => /\ file = FileOf(sku_fetch_timestamps)
       /\ Len(Parseable(file.data)) <= cfg.max_sku_entries
       /\ AllParseable(loaded) => Len(file.data) <= cfg.max_sku_entries
       /\ \A k \in DOMAIN loaded :
             (/\ loaded[k].ts.kind = "bad"
              /\ \A m \in DOMAIN fetch_log :
                    fetch_log[m].outcome = "fetched" => fetch_log[m].sku # loaded[k].sku)
             => loaded[k] \in Entries(file.data)

\* Witness of C14: the cycle loaded two entries, re-stamped the unparseable
\* one, and its end-of-cycle save wrote one entry under max_entries = 1.
C14_Witness ==
    /\ EndOfCycleSaved
    /\ cfg.max_sku_entries = 1
    /\ Len(loaded) = 2
    /\ Len(file.data) = 1
    /\ \E k \in DOMAIN fetch_log : fetch_log[k].outcome = "fetched"
(***************************************************************************)
(* Claims about the backoff of the delivery engine, under SpecDeliver.     *)
(***************************************************************************)
RECURSIVE Pow2(_)
Pow2(k) == IF k = 0 THEN 1 ELSE 2 * Pow2(k - 1)

\* Event p of the trace is an attempt that ended in a timeout or a network
\* error, or rate-limited with no Retry-After value that is a number, and
\* attempts remain after it.
EndsInBackoffCase(p) ==
    /\ d_trace[p].ev = "attempt"
    /\ \/ d_trace[p].o.kind \in {"timeout", "network"}
       \/ /\ d_trace[p].o.kind = "response"
          /\ d_trace[p].o.status = 429
          /\ d_trace[p].o.retry_after.kind # "num"
    /\ d_trace[p].n + 1 < d_cfg.max_retries

\* C19: when attempt number k (from 0) ends in a timeout or network error, or
\* rate-limited without a parseable Retry-After hint, and attempts remain, the
\* call sleeps exactly base * 2^k seconds and then makes attempt k + 1.
C19_ExponentialBackoff ==
    \A p \in DOMAIN d_trace :
        EndsInBackoffCase(p) =>
            /\ p + 1 <= Len(d_trace)
            /\ d_trace[p + 1] =
                   SleepEvent(d_trace[p].n, d_cfg.retry_delay_base * Pow2(d_trace[p].n))
            /\ IF p + 1 = Len(d_trace)
               THEN d_pc = "loop" /\ attempt = d_trace[p].n + 1
               ELSE d_trace[p + 2].ev = "attempt" /\ d_trace[p + 2].n = d_trace[p].n + 1

\* C19's case: a timeout, a network error and a rate limit without a hint
\* have been followed by sleeps of base, 2 * base and 4 * base seconds, and
\* the fourth attempt has been made.
C19_Witness ==
    /\ d_cfg.retry_delay_base = 2
    /\ Len(d_trace) >= 7
    /\ d_trace[1].o.kind = "timeout" /\ d_trace[2] = SleepEvent(0, 2)
    /\ d_trace[3].o.kind = "network" /\ d_trace[4] = SleepEvent(1, 4)
    /\ d_trace[5].o.status = 429 /\ d_trace[5].o.retry_after = NoHint
    /\ d_trace[6] = SleepEvent(2, 8)
    /\ d_trace[7].ev = "attempt" /\ d_trace[7].n = 3

(***************************************************************************)
(* Claims about the price statistics, checked under SpecStats.             *)
(***************************************************************************)
StatsReturned ==
    /\ f_in.fn = "_calculate_price_stats"
    /\ f_out.called
    /\ f_out.value.present

\* C15, as stated: for every non-empty historical series the statistics
\* satisfy lowest <= average <= highest.  It fails for a series of three
\* prices of 28 nines: their sum has 29 digits and is rounded to the context's
\* 28, and the quotient is 1E+28, above the highest price.
C15_OrderedStats ==
    StatsReturned =>
        /\ DecLE(f_out.value.lowest_historical, f_out.value.average_historical)
        /\ DecLE(f_out.value.average_historical, f_out.value.highest_historical)

(***************************************************************************)
(* Claims about the numeric normalizer, checked under SpecNormalize.       *)
(***************************************************************************)
NormalizeEnded == f_in.fn = "safe_decimal" /\ f_out.called
IsText(v) == v # None
IsBlank(v) == \A k \in DOMAIN v : v[k] = " "

\* A text is a number when it is an optional '-', then decimal digits with at
\* most one '.' among them, and holds one digit at least.
IsNumberText(t) ==
    /\ \E k \in DOMAIN t : t[k] \in Digits
    /\ \A k \in DOMAIN t : t[k] \in Digits \/ t[k] = "." \/ (t[k] = "-" /\ k = 1)
    /\ \A k, m \in DOMAIN t : t[k] = "." /\ t[m] = "." => k = m

\* The subsequence of t that keeps the digits, the first '.', and a '-' that
\* is the first character of t: its first n characters' part.
KeepsAt(t, k) ==
    \/ isdigit(t[k])
    \/ t[k] = "." /\ \A m \in 1..(k - 1) : t[m] # "."
    \/ t[k] = "-" /\ k = 1
RECURSIVE KeptUpTo(_, _)
KeptUpTo(t, n) ==
    IF n = 0 THEN <<>>
    ELSE KeptUpTo(t, n - 1) \o (IF KeepsAt(t, n) THEN <<t[n]>> ELSE <<>>)
Filtered(t) == KeptUpTo(t, Len(t))

IsDecimal(d) ==
    /\ d.neg \in BOOLEAN
    /\ d.exp \in Nat
    /\ d.digs # <<>>
    /\ \A k \in DOMAIN d.digs : d.digs[k] \in 0..9

\* C16: safe_decimal never raises and always returns a decimal; it returns
\* 0.00 when the input is None or blank, when the filtered text is empty or
\* just '-', and when the filtered text is not a number.
C16_Total ==
    NormalizeEnded =>
        /\ f_out.exc = "none"
        /\ IsDecimal(f_out.value)
        /\ (~IsText(f_in.value) \/ IsBlank(f_in.value)) => f_out.value = DecZero
        /\ (IsText(f_in.value) /\ ~IsNumberText(Filtered(strip(f_in.value))))
              => f_out.value = DecZero

\* C16's case: a text that is not blank and whose filtered text holds a
\* character, yet is no number ("5" followed by a superscript two): the call
\* has returned 0.00.
C16_Witness ==
    /\ NormalizeEnded
    /\ f_in.value = <<"5", SuperscriptTwo>>
    /\ Filtered(strip(f_in.value)) = <<"5", SuperscriptTwo>>
    /\ f_out.exc = "none"
    /\ f_out.value = DecZero

\* C17, as stated: for a non-blank text the result is the decimal parsed from
\* the subsequence of the raw input that keeps the digits, the first '.' and
\* a '-' only if it is the very first character of the input, so that leading
\* whitespace before a '-' discards the '-'.
C17_AsStated ==
    (NormalizeEnded /\ IsText(f_in.value) /\ ~IsBlank(f_in.value)
        /\ IsNumberText(Filtered(f_in.value)))
    => DecEQ(f_out.value, DecimalOf(Filtered(f_in.value)).value)

\* C17, amended: for a non-blank text the result is the decimal parsed from
\* the subsequence of the input, stripped of its surrounding whitespace, that
\* keeps the digits, the first '.' and a '-' only if it is the first character
\* of the stripped text; a '-' anywhere else never makes the result negative.
C17_FilterAfterStrip ==
    (NormalizeEnded /\ IsText(f_in.value) /\ ~IsBlank(f_in.value))
    => LET t == strip(f_in.value)
       IN /\ IsNumberText(Filtered(t)) => f_out.value = DecimalOf(Filtered(t)).value
          /\ (f_out.value.neg /\ ~IsZero(f_out.value)) => t[1] = "-"

\* C17's case: "$1,234.56" has given 1234.56.
C17_Witness ==
    /\ NormalizeEnded
    /\ f_in.value = DollarText
    /\ f_out.value = Dec(123456, 2)

(***************************************************************************)
(* Claims about cancellation, checked under SpecInterrupt.                 *)
(***************************************************************************)
\* C18, as stated: an interrupt stops the process only when no cycle is in
\* flight (before a new cycle starts, or after the cycle has returned), and
\* it leaves the timestamps file as it was.  It fails: the interrupt leaves
\* check_prices in the middle of the item loop, of the save or of the
\* notifications, and inside the save it leaves a partly written file.
C18_InterruptSafe ==
    [][(proc' = "interrupted" /\ proc # "interrupted")
          => /\ pc = "idle"
             /\ file'.kind = "corrupt" => file.kind = "corrupt"]_vars

(***************************************************************************)
(* Claims about unparseable timestamps in pruning, under SpecPrune.        *)
(***************************************************************************)
Unparseable(store) == SelectSeq(store, LAMBDA e : e.ts.kind # "iso")

\* C21: with persistence enabled, pruning deletes no entry whose timestamp is
\* unparseable (and adds or reorders none), the returned store holds at most
\* max_entries parseable entries, and so its size exceeds max_entries by at
\* most the number of its unparseable entries.
C21_UnparseableNeverPruned ==
    (f_in.fn = "manage_sku_fetch_timestamps" /\ f_out.called /\ f_in.cfg.enabled)
    => /\ Unparseable(f_out.value) = Unparseable(f_in.store)
       /\ IsRestOf(f_out.value, f_in.store)
       /\ Len(Parseable(f_out.value)) <= f_in.cfg.max_sku_entries
       /\ Len(f_out.value) <= f_in.cfg.max_sku_entries + Len(Unparseable(f_in.store))

\* C21's case: a store of an unparseable entry and two parseable ones pruned
\* under max_entries = 1: the unparseable entry and the newer parseable one
\* are left, one entry more than max_entries.
C21_Witness ==
    /\ f_out.called
    /\ f_in.cfg.enabled
    /\ f_in.cfg.max_sku_entries = 1
    /\ f_in.store = <<Entry("A", BadTimestamp), Entry("B", isoformat(1)),
                      Entry("C", isoformat(2))>>
    /\ f_out.value = <<Entry("A", BadTimestamp), Entry("C", isoformat(2))>>

(***************************************************************************)
(* Claims about what changes the persisted store, checked under Spec.      *)
(***************************************************************************)
\* In the step, the entry of SKU s on disk is created or given another
\* timestamp; it is deleted.
EntryWritten(s) ==
    /\ s \in Keys(file'.data)
    /\ s \notin Keys(file.data) \/ Lookup(file'.data, s) # Lookup(file.data, s)
EntryDeleted(s) == s \in Keys(file.data) /\ s \notin Keys(file'.data)
\* The cycle of the step has read a non-empty history for s; the step is the
\* prune-and-save of lines 640-641 and pruning removes s.
FetchedInCycle(s) ==
    \E k \in DOMAIN fetch_log' : fetch_log'[k].sku = s /\ fetch_log'[k].outcome = "fetched"
PrunedInStep(s) ==
    /\ pc = "items" /\ pc' = "notify"
    /\ s \in Keys(sku_fetch_timestamps)
    /\ s \notin Keys(manage_sku_fetch_timestamps(cfg, sku_fetch_timestamps))

\* C22, as stated: in every step of every cycle, an entry of the persisted
\* store is created or overwritten only when the cycle fetched that SKU's
\* history successfully, and is deleted only by pruning; in particular a
\* failed load leaves the entries on disk as they are.  It fails: after a load
\* that failed, the cycle's save writes the fresh store over the file.
C22_OnlyFetchAndPrune ==
    [][\A s \in SKUs :
          /\ EntryWritten(s) => FetchedInCycle(s)
          /\ EntryDeleted(s) => PrunedInStep(s)]_vars

\* The same for the steps whose file could be loaded: only a save after a
\* failed load breaks C22.
C22_ExceptAfterFailedLoad ==
    [][file.kind # "unreadable"
          => \A s \in SKUs :
                /\ EntryWritten(s) => FetchedInCycle(s)
                /\ EntryDeleted(s) => PrunedInStep(s)]_vars

(***************************************************************************)
(* Claims about a process without persistence, checked under Spec.         *)
(***************************************************************************)
\* The upstream gives every cycle its item batch.
BatchObtained ==
    LET t == get_total_count(up.total)
    IN t.exc = "none" /\ ~t.isNone /\ ~get_all_items(t.count, up.batch).isNone
HasSku(item) == item.kind = "dict" /\ item.Sku # ""
\* The history read of item k of the batch was made in this cycle.
HistoryRead(k) ==
    \E m \in DOMAIN fetch_log :
        /\ fetch_log[m].idx = k
        /\ fetch_log[m].outcome \in {"fetched", "fetched_empty", "error"}
DisabledStoreEmpty ==
    /\ sku_fetch_timestamps = <<>>
    /\ file = FileMissing
    /\ \A m \in DOMAIN fetch_log : fetch_log[m].outcome # "cooldown"

\* C23, as stated: with persistence disabled the store stays empty, no item
\* is skipped on cooldown, and a cycle that obtained the item batch has, when
\* it ends, read the history of every item of the batch that has a SKU.  It
\* fails when an exception leaves the item loop (C9): the items after the
\* offending one are never read.
C23_DisabledFetchesAll ==
    ~cfg.enabled
    => /\ DisabledStoreEmpty
       /\ (CycleEnded /\ BatchObtained)
          => \A k \in DOMAIN up.batch.items : HasSku(up.batch.items[k]) => HistoryRead(k)

\* The same for the cycles that returned: C23 fails only in a cycle that an
\* exception left.
C23_UnlessCycleRaised ==
    ~cfg.enabled
    => /\ DisabledStoreEmpty
       /\ (cycle.status = "returned" /\ BatchObtained)
          => \A k \in DOMAIN up.batch.items : HasSku(up.batch.items[k]) => HistoryRead(k)

(***************************************************************************)
(* Claims about the two sub-conditions of decide, under SpecDecide.        *)
(***************************************************************************)
HoldsA == sub_condition_2a(q_in.current, q_in.lowest, q_in.in_stock)
HoldsB == sub_condition_2b(q_in.current, q_in.lowest)

\* C24: for no current price, lowest price, highest price and stock flag do
\* sub-conditions (a) and (b) both hold, and a notification has the reason of
\* the one sub-condition that holds.
C24_MutuallyExclusive ==
    /\ ~(HoldsA /\ HoldsB)
    /\ (q_out.called /\ q_out.notify)
       => \/ HoldsA /\ ~HoldsB /\ q_out.reason = "ATL restock"
          \/ HoldsB /\ ~HoldsA /\ q_out.reason = "below ATL"

\* C24's case: decide has notified for an in-stock item whose price is below
\* the lowest price: (b) holds, (a) does not, and the reason is (b)'s.
C24_Witness ==
    /\ q_out.called
    /\ q_out.notify
    /\ q_in.in_stock
    /\ HoldsB
    /\ ~HoldsA
    /\ q_out.reason = "below ATL"

(***************************************************************************)
(* Claims about the payload, checked under SpecDecide.                     *)
(***************************************************************************)
\* C25: a payload is formatted only when decide notified, and every payload
\* has its all-time-low flag set: both sub-conditions imply current <= lowest.
C25_PayloadIsAllTimeLow ==
    q_out.called
    => /\ q_out.payload # NoPayload <=> q_out.notify
       /\ q_out.notify => /\ q_out.payload.is_all_time_low
                          /\ WholeValue(q_in.current) <= WholeValue(q_in.lowest)

\* C25's case: a payload formatted for a price equal to the lowest price
\* (sub-condition (a)), with the flag set.
C25_Witness ==
    /\ q_out.called
    /\ q_out.notify
    /\ q_out.reason = "ATL restock"
    /\ DecEQ(q_in.current, q_in.lowest)
    /\ q_out.payload.is_all_time_low

(***************************************************************************)
(* Claims about the order of a cycle's work, checked under SpecOrder.      *)
(***************************************************************************)
\* The SKUs of the eligible items among the first n of the batch, in order.
RECURSIVE EligibleUpTo(_)
EligibleUpTo(n) ==
    IF n = 0 THEN <<>>
    ELSE EligibleUpTo(n - 1) \o (IF Eligible(n) THEN <<all_items_data[n].Sku>> ELSE <<>>)

\* The store the cycle loaded with the stamps of its successful history
\* fetches, the first n of them.
RECURSIVE StampedUpTo(_)
StampedUpTo(n) ==
    IF n = 0 THEN loaded
    ELSE IF fetch_log[n].outcome = "fetched" /\ cfg.enabled
    THEN Assign(StampedUpTo(n - 1), fetch_log[n].sku, isoformat(fetch_log[n].at))
    ELSE StampedUpTo(n - 1)

\* Every item of the batch has been processed, and the store is the pruned
\* store of the item loop and, with persistence enabled, the save has been
\* called and the file, unless it cannot be written, holds that store.
ItemsDoneAndSaved ==
    /\ Len(fetch_log) = Len(all_items_data)
    /\ i > Len(all_items_data)
    /\ sku_fetch_timestamps =
           manage_sku_fetch_timestamps(cfg, StampedUpTo(Len(fetch_log)))
    /\ cfg.enabled => /\ cycle.saved
                      /\ file.kind # "unwritable" => file = FileOf(sku_fetch_timestamps)
DeliveredInBatchOrder ==
    LET eligible == EligibleUpTo(Len(fetch_log))
    IN \A m \in DOMAIN deliveries :
          m <= Len(eligible) /\ deliveries[m].sku = eligible[m]

\* C26: in a cycle, a delivery is made only once every item of the batch has
\* been processed and the store pruned and saved; the deliveries are made in
\* the order in which the eligible items stand in the batch; and whatever the
\* deliveries return, the store and the file stay what the item loop and the
\* pruning made them.
C26_DeliverAfterSave ==
    deliveries # <<>> => ItemsDoneAndSaved /\ DeliveredInBatchOrder

\* C26's case: with persistence enabled, a batch of B then A, both eligible,
\* has had its two deliveries, B's first and failed, then A's, and the file
\* holds the store of the cycle.
C26_Witness ==
    /\ cfg.enabled
    /\ Len(all_items_data) = 2
    /\ all_items_data[1].Sku = "B" /\ all_items_data[2].Sku = "A"
    /\ Len(deliveries) = 2
    /\ deliveries[1] = [sku |-> "B", result |-> "false"]
    /\ deliveries[2].sku = "A"
    /\ file = FileOf(sku_fetch_timestamps)
    /\ Keys(file.data) = {"A", "B"}

\* The deliveries of this cycle made for SKU s, and the times at which this
\* cycle fetched the history of s.
DeliveredFor(s) == {m \in DOMAIN deliveries : deliveries[m].sku = s}
FetchTimes(s) ==
    {fetch_log[k].at : k \in {m \in DOMAIN fetch_log :
                                 fetch_log[m].sku = s /\ fetch_log[m].outcome = "fetched"}}

\* The store holds for s the time of a fetch of this cycle, and so does the
\* file unless it cannot be written.
StampKept(s) ==
    /\ s \in Keys(sku_fetch_timestamps)
    /\ Lookup(sku_fetch_timestamps, s).kind = "iso"
    /\ Lookup(sku_fetch_timestamps, s).t \in FetchTimes(s)
    /\ file.kind # "unwritable" => file = FileOf(sku_fetch_timestamps)

\* C27: with persistence enabled, a SKU for which a delivery was made in
\* this cycle, whether it returned true or false, was fetched in this cycle
\* and, unless the pruning of the cycle deleted its entry, the store and the
\* file hold the time of that fetch; and in a cycle that loaded for a SKU an
\* entry inside the cooldown window, no payload is queued and no delivery is
\* made for that SKU, in particular not for a SKU whose delivery failed in an
\* earlier cycle.
C27_FailedAlertNotRetried ==
    \A s \in SKUs :
        /\ (cfg.enabled /\ DeliveredFor(s) # {})
              => /\ FetchTimes(s) # {}
                 /\ s \in Keys(manage_sku_fetch_timestamps(cfg, StampedUpTo(Len(fetch_log))))
                       => StampKept(s)
        /\ (InCycle /\ LoadedInsideWindow(s))
              => /\ DeliveredFor(s) = {}
                 /\ \A m \in DOMAIN items_to_notify : items_to_notify[m].Sku # s

\* C27's case: the delivery for a SKU failed in the cycle before; this cycle
\* loaded the entry written then, still inside the window, and has come to
\* its end with the SKU skipped on cooldown.
C27_Witness ==
    \E s \in SKUs :
        /\ pc = "notify"
        /\ j > Len(items_to_notify)
        /\ prev.done
        /\ s \in prev.failed
        /\ LoadedInsideWindow(s)
        /\ \E f \in prev.fetched : f.sku = s /\ Lookup(loaded, s).t = f.t
        /\ \E k \in DOMAIN fetch_log :
              fetch_log[k].sku = s /\ fetch_log[k].outcome = "cooldown"

\* Nothing can be attempted: no webhook URL (line 279) or an empty range
\* (line 289).
NothingPermitted == ~d_cfg.webhook_url \/ d_cfg.max_retries = 0

\* C28: in a call of deliver, every sleep is followed by a transport attempt
\* (the next event is the attempt of the next iteration, or the call stands
\* in the loop with that iteration still permitted, so that the attempt is
\* the only thing it can do next); no sleep follows the last permitted
\* attempt, and a call that has ended did not end on a sleep; and with no
\* webhook URL or with max_retries 0 the call makes no attempt and no sleep
\* and returns false.
C28_SleepThenAttempt ==
    /\ \A k \in SleepIndexes :
          /\ k > 1
          /\ d_trace[k - 1].ev = "attempt"
          /\ d_trace[k - 1].n = d_trace[k].n
          /\ d_trace[k].n + 1 < d_cfg.max_retries
          /\ IF k < Len(d_trace)
             THEN d_trace[k + 1].ev = "attempt" /\ d_trace[k + 1].n = d_trace[k].n + 1
             ELSE /\ d_pc = "loop"
                  /\ attempt = d_trace[k].n + 1
                  /\ attempt < d_cfg.max_retries
    /\ \A k \in AttemptIndexes : d_trace[k].n < d_cfg.max_retries
    /\ NothingPermitted
          => /\ d_trace = <<>>
             /\ d_pc # "raised"
             /\ d_pc = "returned" => d_result = "false"

\* C28's case: the call has ended; it slept after a retryable failure and
\* attempted again, and its last permitted attempt failed the same way with
\* no sleep after it.
C28_Witness ==
    /\ d_pc = "returned"
    /\ d_result = "false"
    /\ SleepIndexes # {}
    /\ d_trace[Len(d_trace)].ev = "attempt"
    /\ d_trace[Len(d_trace)].n + 1 = d_cfg.max_retries
    /\ d_trace[Len(d_trace)].o.kind = "timeout"

\* The call with max_retries 0 and a webhook URL has returned false.
C28_ZeroRetries ==
    /\ d_cfg.webhook_url
    /\ d_cfg.max_retries = 0
    /\ d_pc = "returned"
    /\ d_result = "false"
    /\ d_trace = <<>>

====
